---- MODULE Spec2Model ----
(***************************************************************************)
(* DisMAL (Dissonance Modeling and Analysis Library).                      *)
(*                                                                         *)
(* Two state machines are modelled:                                        *)
(*   Spec      one OvertoneDistribution driven through its public mutators *)
(*   SpecCalc  a DissonanceCalc holding distributions, a preprocessor      *)
(*             chain and the accumulate flag, driven through               *)
(*             calculateDissonance                                         *)
(*   SpecMap   a configured DissonanceCalc computing dissonance maps and   *)
(*             the optimizer's objective opt2D                             *)
(*                                                                         *)
(* Numbers.  The code works on float/double.  Frequency ratios,            *)
(* amplitudes, minInterval and frequencies are modelled as integers and    *)
(* every quotient comparison is done exactly by cross-multiplication, so   *)
(* the model is the code's arithmetic without rounding.  A dissonance      *)
(* value (a float sum of roughness terms) is modelled as the sequence of   *)
(* the calculateRoughness calls that were summed into it, in the order the *)
(* code adds them; a running total holds the halves that were added.       *)
(***************************************************************************)
EXTENDS Integers, Sequences, FiniteSets, TLC

VARIABLES
    dist,                   \* the OvertoneDistribution under test (Spec)
    lastOp,                 \* name of the last operation that ran
    distributions,          \* DissonanceCalc::distributions (canonical)
    preprocessors,          \* DissonanceCalc::preprocessors
    sumPartialDissonances,  \* DissonanceCalc::sumPartialDissonances
    ret,                    \* value returned by the last operation
    aborted,                \* an out-of-range write stopped the process
    calc,                   \* DissonanceCalc's sweep configuration and maps
    args,                   \* arguments of the last operation
    opt,                    \* the locals of a running optimize2D
    tuning,                 \* the TuningSystem under test (SpecTuning, SpecFile)
    file                    \* the FileIO object and the file at its path (SpecFile)

vars == <<dist, lastOp, distributions, preprocessors, sumPartialDissonances,
          ret, aborted, calc, args, opt, tuning, file>>

calcVars == <<distributions, preprocessors, sumPartialDissonances, ret, aborted,
              calc, args, opt, tuning, file>>

(***************************************************************************)
(* Bounds and input sets                                                   *)
(***************************************************************************)
MaxPartials == 2        \* partials held by the distribution of Spec
MaxDists == 2           \* distributions held by the DissonanceCalc
MaxPre == 1             \* preprocessors in the chain

FreqInputs == {-1, 1, 2, 3, 4}      \* frequency ratios offered to the mutators
AmpInputs == {0, 1}                 \* amplitude ratios offered to the mutators
MinIntervalInputs == {0, 1, 2}      \* values offered to setMinInterval
FundFreqInputs == {0, 100}          \* fundamental frequencies offered (Hz)
FundAmpInputs == {0, 1}             \* fundamental amplitudes offered

(***************************************************************************)
(* Partial (OvertoneDistribution.h)                                        *)
(***************************************************************************)
\* Partial::Partial()
PartialDefault == [freq |-> 0, amp |-> 0, muted |-> FALSE, dissonance |-> <<>>]

\* Partial::Partial (float newFreq, float newAmp): non-positive values become 0
PartialNew(newFreq, newAmp) ==
    [freq |-> IF newFreq > 0 THEN newFreq ELSE 0,
     amp |-> IF newAmp > 0 THEN newAmp ELSE 0,
     muted |-> FALSE,
     dissonance |-> <<>>]

\* Partial copy constructor / operator=: the copy's dissonance is 0
PartialCopy(p) == [p EXCEPT !.dissonance = <<>>]

\* operator< (const Partial&, const Partial&)
PartialLess(first, second) == first.freq < second.freq

(***************************************************************************)
(* Array<Partial>::sort(): ascending by operator<.  Insertion of each      *)
(* element behind the last element that is not greater than it.            *)
(***************************************************************************)
RECURSIVE InsertSorted(_, _)
InsertSorted(s, p) ==
    IF s = <<>> THEN <<p>>
    ELSE IF PartialLess(p, s[Len(s)])
         THEN Append(InsertSorted(SubSeq(s, 1, Len(s) - 1), p), s[Len(s)])
         ELSE Append(s, p)

RECURSIVE SortFrom(_, _)
SortFrom(done, rest) ==
    IF rest = <<>> THEN done
    ELSE SortFrom(InsertSorted(done, rest[1]), Tail(rest))

sort(s) == SortFrom(<<>>, s)

\* Array::remove (index), 1-based here
RemoveAt(s, i) == SubSeq(s, 1, i - 1) \o SubSeq(s, i + 1, Len(s))

(***************************************************************************)
(* OvertoneDistribution (OvertoneDistribution.cpp)                         *)
(***************************************************************************)
\* OvertoneDistribution::OvertoneDistribution()
NewDistribution ==
    [partials |-> <<>>, fundamental |-> PartialDefault, minInterval |-> 1,
     muted |-> FALSE]

\* juce::Range<double>::contains as used by tooCloseToOther on the range
\* [1 / minInterval, minInterval): start <= value < end, for value = num / den.
\* A quotient by 0 is an infinity or NaN, which the range does not contain.
TooCloseContains(minInterval, num, den) ==
    IF den = 0 THEN FALSE
    ELSE IF den > 0
         THEN den <= num * minInterval /\ num < minInterval * den
         ELSE den >= num * minInterval /\ num > minInterval * den

alreadyContains(d, freqToCheck) ==
    \/ freqToCheck = 1
    \/ \E i \in 1..Len(d.partials) : freqToCheck = d.partials[i].freq

\* tooCloseToOther without the loop over the partials
tooCloseToOtherTonicOnly(d, freqToCheck) ==
    /\ d.minInterval > 1
    /\ TooCloseContains(d.minInterval, freqToCheck, 1)

tooCloseToOther(d, freqToCheck) ==
    /\ d.minInterval > 1
    /\ \/ TooCloseContains(d.minInterval, freqToCheck, 1)
       \/ \E i \in 1..Len(d.partials) :
              TooCloseContains(d.minInterval, freqToCheck, d.partials[i].freq)

\* addPartial(): appends Partial() and sorts
addPartial0(d) == [d EXCEPT !.partials = sort(Append(@, PartialDefault))]

\* addPartial (FreqRatio, AmpRatio): the jasserts do not stop the call
addPartial(d, FreqRatio, AmpRatio) ==
    IF ~alreadyContains(d, FreqRatio) /\ ~tooCloseToOther(d, FreqRatio)
    THEN [d EXCEPT !.partials = sort(Append(@, PartialNew(FreqRatio, AmpRatio)))]
    ELSE d

\* setFreqRatio without the sort
setFreqRatioUnsorted(d, partialNum, newFreqRatio) ==
    IF ~alreadyContains(d, newFreqRatio) /\ ~tooCloseToOther(d, newFreqRatio)
    THEN [d EXCEPT !.partials[partialNum].freq = newFreqRatio]
    ELSE d

setFreqRatio(d, partialNum, newFreqRatio) ==
    IF ~alreadyContains(d, newFreqRatio) /\ ~tooCloseToOther(d, newFreqRatio)
    THEN [d EXCEPT !.partials = sort([@ EXCEPT ![partialNum].freq = newFreqRatio])]
    ELSE d

setAmpRatio(d, partialNum, newAmpRatio) ==
    [d EXCEPT !.partials[partialNum].amp = newAmpRatio]

removePartial(d, partialNum) == [d EXCEPT !.partials = RemoveAt(@, partialNum)]

clearPartials(d) == [d EXCEPT !.partials = <<>>]

setFundamental(d, fundamentalFreq, fundamentalAmp) ==
    [d EXCEPT !.fundamental.freq = fundamentalFreq,
              !.fundamental.amp = fundamentalAmp]

setFundamentalFreq(d, newFundamentalFreq) ==
    [d EXCEPT !.fundamental.freq = newFundamentalFreq]

setFundamentalAmp(d, newFundamentalAmp) ==
    [d EXCEPT !.fundamental.amp = newFundamentalAmp]

muteFundamental(d, m) == [d EXCEPT !.fundamental.muted = m]

mute(d, m) == [d EXCEPT !.muted = m]

mutePartial(d, partialNum, m) == [d EXCEPT !.partials[partialNum].muted = m]

setMinInterval(d, newMinInterval) == [d EXCEPT !.minInterval = newMinInterval]

getRealFreq(d, partialNum) == d.partials[partialNum].freq * d.fundamental.freq

getRealAmp(d, partialNum) == d.partials[partialNum].amp * d.fundamental.amp

addPartialDissonance(d, partialNum, dissonanceToAdd) ==
    [d EXCEPT !.partials[partialNum].dissonance = @ \o dissonanceToAdd]

addDissonanceToFundamental(d, dissonanceToAdd) ==
    [d EXCEPT !.fundamental.dissonance = @ \o dissonanceToAdd]

clearPartialDissonances(d) ==
    [d EXCEPT !.fundamental.dissonance = <<>>,
              !.partials = [i \in 1..Len(@) |-> [@[i] EXCEPT !.dissonance = <<>>]]]

\* copy constructor: partials and fundamental are copied with Partial's copy
\* operations, so every dissonance of the copy is 0
CopyDistribution(d) ==
    [d EXCEPT !.fundamental = PartialCopy(@),
              !.partials = [i \in 1..Len(@) |-> PartialCopy(@[i])]]

(***************************************************************************)
(* Spec: operations on one OvertoneDistribution                            *)
(***************************************************************************)
\* a number held by a float: a value, or what a division by zero leaves
Num(v) == [kind |-> "num", v |-> v]
NaN == [kind |-> "nan", v |-> 0]
Inf == [kind |-> "inf", v |-> 0]

\* DissonanceCalc::DissonanceCalc(): numSteps and stepSize are not set by the
\* constructor and hold whatever the memory held (uninitNumSteps,
\* uninitStepSize); index 1 is the code's index 0
NewCalc(uninitNumSteps, uninitStepSize) ==
    [model |-> FALSE,
     logSteps |-> FALSE,
     varDist |-> 1, xDist |-> 1, yDist |-> 1,
     dimensionality |-> 2,
     frequencyRange |-> [start |-> 0, end |-> 0],
     numSteps |-> uninitNumSteps,
     stepSize |-> uninitStepSize,
     map2D |-> <<>>, map3D |-> <<>>,
     minima |-> <<>>, maxima |-> <<>>,
     chords |-> <<>>, dissonanceValues |-> <<>>]

\* the DissonanceCalc part that Spec and SpecCalc do not drive
CalcUnused == NewCalc(0, Num(0))

\* no optimize2D is running
OptIdle ==
    [pc |-> "idle", minimize |-> TRUE, objective |-> <<>>, dissValues |-> <<>>,
     starts |-> 0]

CalcIdle ==
    /\ distributions = <<>>
    /\ preprocessors = <<>>
    /\ sumPartialDissonances = TRUE
    /\ ret = <<>>
    /\ aborted = FALSE
    /\ calc = CalcUnused
    /\ args = <<>>
    /\ opt = OptIdle

Init ==
    /\ dist = NewDistribution
    /\ tuning = <<>>
    /\ file = <<>>
    /\ lastOp = "construct"
    /\ CalcIdle

PartialIdx == 1..Len(dist.partials)

Do(op, d) ==
    /\ dist' = d
    /\ lastOp' = op
    /\ UNCHANGED calcVars

AddPartial0 ==
    /\ Len(dist.partials) < MaxPartials
    /\ Do("addPartial0", addPartial0(dist))

\* lastOp tells a call that changed nothing from one that did
Outcome(op, d) == IF d = dist THEN op \o " rejected" ELSE op

AddPartial ==
    /\ Len(dist.partials) < MaxPartials
    /\ \E r \in FreqInputs, a \in AmpInputs :
           Do(Outcome("addPartial", addPartial(dist, r, a)), addPartial(dist, r, a))

SetFreqRatio ==
    \E i \in PartialIdx, r \in FreqInputs :
        Do(Outcome("setFreqRatio", setFreqRatio(dist, i, r)), setFreqRatio(dist, i, r))

SetAmpRatio ==
    \E i \in PartialIdx, a \in AmpInputs : Do("setAmpRatio", setAmpRatio(dist, i, a))

RemovePartial == \E i \in PartialIdx : Do("removePartial", removePartial(dist, i))

ClearPartials == Do("clearPartials", clearPartials(dist))

SetFundamental ==
    \E f \in FundFreqInputs, a \in FundAmpInputs :
        Do("setFundamental", setFundamental(dist, f, a))

SetFundamentalFreq ==
    \E f \in FundFreqInputs : Do("setFundamentalFreq", setFundamentalFreq(dist, f))

SetFundamentalAmp ==
    \E a \in FundAmpInputs : Do("setFundamentalAmp", setFundamentalAmp(dist, a))

MutePartial ==
    \E i \in PartialIdx, m \in BOOLEAN : Do("mutePartial", mutePartial(dist, i, m))

SetMinInterval ==
    \E m \in MinIntervalInputs : Do("setMinInterval", setMinInterval(dist, m))

Next ==
    \/ AddPartial0
    \/ AddPartial
    \/ SetFreqRatio
    \/ SetAmpRatio
    \/ RemovePartial
    \/ ClearPartials
    \/ SetFundamental
    \/ SetFundamentalFreq
    \/ SetFundamentalAmp
    \/ MutePartial
    \/ SetMinInterval

Spec == Init /\ [][Next]_vars

(***************************************************************************)
(* SpectralInterferenceModel::calculateDissonance (DissonanceModel.cpp)    *)
(*                                                                         *)
(* A term is one calculateRoughness call: the loop that made it (kind),    *)
(* the loop indices of its two participants (distribution d, partial p,    *)
(* p = 0 for a fundamental; indices are 1-based here) and its arguments.   *)
(***************************************************************************)
RECURSIVE Flat(_)
Flat(ss) == IF ss = <<>> THEN <<>> ELSE ss[1] \o Flat(Tail(ss))

Term(kind, d1, p1, d2, p2, f1, a1, f2, a2) ==
    [kind |-> kind, d1 |-> d1, p1 |-> p1, d2 |-> d2, p2 |-> p2,
     f1 |-> f1, a1 |-> a1, f2 |-> f2, a2 |-> a2]

\* ! fundamentalIsMuted() && ! isMuted()
fundamentalIncluded(ds, i) == ~ds[i].fundamental.muted /\ ~ds[i].muted

\* secondFundamental starting at firstFundamental itself
secondFundamentalStartSame(firstFundamental) == firstFundamental

\* first value of secondFundamental
secondFundamentalStart(firstFundamental) == firstFundamental + 1

\* loop over the fundamentals (lines 50-81)
fundamentalTerms(ds) ==
    Flat([i \in 1..Len(ds) |->
        IF fundamentalIncluded(ds, i)
        THEN Flat([j \in 1..Len(ds) |->
                 IF j >= secondFundamentalStart(i) /\ fundamentalIncluded(ds, j)
                 THEN <<Term("ff", i, 0, j, 0,
                             ds[i].fundamental.freq, ds[i].fundamental.amp,
                             ds[j].fundamental.freq, ds[j].fundamental.amp)>>
                 ELSE <<>>])
        ELSE <<>>])

\* the loop skipping the partial's own distribution
fundamentalPartialRangeOthers(ds, firstDistribution) ==
    (1..Len(ds)) \ {firstDistribution}

\* the fundamentals the loop of lines 96-98 visits for a partial of
\* distribution firstDistribution: all of them, its own included
fundamentalPartialRange(ds, firstDistribution) == 1..Len(ds)

\* current partial against the fundamentals (lines 95-116)
partialFundamentalTerms(ds, i, p) ==
    Flat([k \in 1..Len(ds) |->
        IF k \in fundamentalPartialRange(ds, i) /\ fundamentalIncluded(ds, k)
        THEN <<Term("pf", i, p, k, 0,
                    getRealFreq(ds[i], p), getRealAmp(ds[i], p),
                    ds[k].fundamental.freq, ds[k].fundamental.amp)>>
        ELSE <<>>])

\* startingPartial without the test for the same distribution
startingPartialAlwaysFirst(firstDistribution, secondDistribution, firstPartial) == 1

\* startingPartial (lines 123-126)
startingPartial(firstDistribution, secondDistribution, firstPartial) ==
    IF firstDistribution = secondDistribution THEN firstPartial + 1 ELSE 1

\* the second partial's test without isMuted()
secondPartialIncludedNoDistCheck(ds, j, q) == ~ds[j].partials[q].muted

\* ! isMuted() && ! partialIsMuted (secondPartial)   (lines 132-133)
secondPartialIncluded(ds, j, q) == ~ds[j].muted /\ ~ds[j].partials[q].muted

\* current partial against all subsequent partials (lines 118-149)
partialPartialTerms(ds, i, p) ==
    Flat([j \in 1..Len(ds) |->
        IF j >= i
        THEN Flat([q \in 1..Len(ds[j].partials) |->
                 IF q >= startingPartial(i, j, p) /\ secondPartialIncluded(ds, j, q)
                 THEN <<Term("pp", i, p, j, q,
                             getRealFreq(ds[i], p), getRealAmp(ds[i], p),
                             getRealFreq(ds[j], q), getRealAmp(ds[j], q))>>
                 ELSE <<>>])
        ELSE <<>>])

\* loop over the partials of every distribution (lines 83-153)
partialTerms(ds) ==
    Flat([i \in 1..Len(ds) |->
        IF ~ds[i].muted
        THEN Flat([p \in 1..Len(ds[i].partials) |->
                 IF ~ds[i].partials[p].muted
                 THEN partialFundamentalTerms(ds, i, p) \o partialPartialTerms(ds, i, p)
                 ELSE <<>>])
        ELSE <<>>])

\* the calls in the order `dissonance += tempDiss` adds them
roughnessTerms(ds) == fundamentalTerms(ds) \o partialTerms(ds)

\* index handed to addPartialDissonance for the partial of a
\* partial-fundamental term: line 112 passes firstDistribution
partialFundamentalIndex(t) == t.d1

\* the fundamentals a term's half is added to (lines 75-76, 113)
fundamentalsCredited(t) ==
    IF t.kind = "ff" THEN {t.d1, t.d2}
    ELSE IF t.kind = "pf" THEN {t.d2}
    ELSE {}

\* the <<distribution, partial index>> a term's half is added to
\* (lines 112, 144-145)
partialsCredited(t) ==
    IF t.kind = "pf" THEN {<<t.d1, partialFundamentalIndex(t)>>}
    ELSE IF t.kind = "pp" THEN {<<t.d1, t.p1>>, <<t.d2, t.p2>>}
    ELSE {}

\* the running totals after the terms ts were attributed, each total taking
\* its halves in the order the loops produce them
attributeAll(ds, ts) ==
    [i \in 1..Len(ds) |->
        [ds[i] EXCEPT
            !.fundamental.dissonance =
                @ \o SelectSeq(ts, LAMBDA t : i \in fundamentalsCredited(t)),
            !.partials = [p \in 1..Len(@) |->
                [@[p] EXCEPT !.dissonance =
                    @ \o SelectSeq(ts, LAMBDA t : <<i, p>> \in partialsCredited(t))]]]]

\* getReference on an index that is not below size() reaches outside the
\* array: the array's elements are not changed by such a write
writesOutOfRange(ds, ts) ==
    \E k \in 1..Len(ts) :
        \E e \in partialsCredited(ts[k]) : e[2] > Len(ds[e[1]].partials)

\* SpectralInterferenceModel::calculateDissonance (distributions, sum):
\* the returned dissonance, the distributions with their running totals,
\* and whether a write went outside a partial array
modelCalculateDissonance(ds, sum) ==
    LET ts == CHOOSE x \in {roughnessTerms(ds)} : TRUE
    IN  [dissonance |-> ts,
         ds |-> IF sum THEN attributeAll(ds, ts) ELSE ds,
         oob |-> sum /\ writesOutOfRange(ds, ts)]

(***************************************************************************)
(* HearingRangePreprocessor (Preprocessor.cpp)                             *)
(***************************************************************************)
HearingRangeStart == 20
HearingRangeEnd == 20000

\* HearingRangePreprocessor::HearingRangePreprocessor()
NewHearingRangePreprocessor == [start |-> HearingRangeStart, end |-> HearingRangeEnd]

\* Range<float>::contains
hearingRangeContains(pre, f) == pre.start <= f /\ f < pre.end

RECURSIVE mutePartialsOutside(_, _, _)
mutePartialsOutside(pre, d, p) ==
    IF p > Len(d.partials) THEN d
    ELSE mutePartialsOutside(pre,
             IF ~hearingRangeContains(pre, getRealFreq(d, p))
             THEN mutePartial(d, p, TRUE) ELSE d,
             p + 1)

\* process without the test of the fundamental
processPartialsOnly(pre, ds) ==
    [i \in 1..Len(ds) |-> mutePartialsOutside(pre, ds[i], 1)]

\* HearingRangePreprocessor::process
process(pre, ds) ==
    [i \in 1..Len(ds) |->
        mutePartialsOutside(pre,
            IF ~hearingRangeContains(pre, ds[i].fundamental.freq)
            THEN muteFundamental(ds[i], TRUE) ELSE ds[i],
            1)]

RECURSIVE processAll(_, _)
processAll(pres, ds) ==
    IF pres = <<>> THEN ds ELSE processAll(Tail(pres), process(pres[1], ds))

(***************************************************************************)
(* DissonanceCalc::calculateDissonance (DissonanceCalc.cpp)                *)
(***************************************************************************)
\* lines 132-138
clearAll(ds, sum) ==
    IF sum THEN [i \in 1..Len(ds) |-> clearPartialDissonances(ds[i])] ELSE ds

\* tempDistributions.addCopiesOf (distributions)
addCopiesOf(ds) == [i \in 1..Len(ds) |-> CopyDistribution(ds[i])]

\* lines 152-163: the working copy's totals are added to the canonical ones
mergeTotals(ds, temp) ==
    [i \in 1..Len(ds) |->
        [ds[i] EXCEPT
            !.fundamental.dissonance = @ \o temp[i].fundamental.dissonance,
            !.partials = [j \in 1..Len(@) |->
                [@[j] EXCEPT !.dissonance = @ \o temp[i].partials[j].dissonance]]]]

\* the preprocessors run on the canonical distributions instead of a copy
calculateDissonanceInPlace(ds, pres, sum) ==
    LET processed == processAll(pres, clearAll(ds, sum))
        r == modelCalculateDissonance(addCopiesOf(processed), sum)
    IN  [dissonance |-> r.dissonance,
         cleared |-> processed,
         ds |-> IF sum THEN mergeTotals(processed, r.ds) ELSE processed,
         oob |-> r.oob]

\* DissonanceCalc::calculateDissonance: the value returned, the canonical
\* distributions once cleared and at the end, and whether the model wrote
\* outside an array
calculateDissonance(ds, pres, sum) ==
    LET cleared == clearAll(ds, sum)
        temp == processAll(pres, addCopiesOf(cleared))
    IN  LET r == CHOOSE x \in {modelCalculateDissonance(temp, sum)} : TRUE
        IN  [dissonance |-> r.dissonance,
             cleared |-> cleared,
             ds |-> IF sum THEN mergeTotals(cleared, r.ds) ELSE cleared,
             oob |-> r.oob]

(***************************************************************************)
(* SpecCalc: a DissonanceCalc with its distributions configured            *)
(***************************************************************************)
\* fundamental frequency (Hz) of the i-th configured distribution: 10 Hz is
\* below the hearing range while its overtones 20 and 40 Hz are inside it;
\* the overtones of 10000 Hz are outside it
CalcFundFreq(i) == IF i = 1 THEN 10 ELSE IF i = 2 THEN 10000 ELSE 100
\* overtone series the configured distributions take their partials from
CalcRatios == <<2, 4>>

RECURSIVE withPartials(_, _)
withPartials(d, n) ==
    IF n = 0 THEN d ELSE addPartial(withPartials(d, n - 1), CalcRatios[n], 1)

RECURSIVE withPartialMutes(_, _)
withPartialMutes(d, ms) ==
    IF ms = <<>> THEN d
    ELSE mutePartial(withPartialMutes(d, SubSeq(ms, 1, Len(ms) - 1)), Len(ms),
                     ms[Len(ms)])

\* a distribution as the mutators build it: ms are the partials' mute flags
BuildDistribution(f, ms, fm, dm) ==
    mute(muteFundamental(
        withPartialMutes(withPartials(setFundamental(NewDistribution, f, 1), Len(ms)),
                         ms),
        fm), dm)

PartialMutes == UNION {[1..n -> BOOLEAN] : n \in 0..Len(CalcRatios)}

\* the shapes a configured distribution takes: unmuted with any mute flags
\* on its fundamental and partials, or muted as a whole with all of its
\* entities unmuted
DistributionShapes ==
    {<<ms, fm, FALSE>> : ms \in PartialMutes, fm \in BOOLEAN}
        \cup {<<[n \in 1..Len(CalcRatios) |-> FALSE], FALSE, TRUE>>}

InitCalc ==
    /\ dist = NewDistribution
    /\ tuning = <<>>
    /\ file = <<>>
    /\ lastOp = "construct"
    /\ \E n \in 1..MaxDists :
           \E shapes \in [1..n -> DistributionShapes] :
               distributions =
                   [i \in 1..n |-> BuildDistribution(CalcFundFreq(i), shapes[i][1],
                                                     shapes[i][2], shapes[i][3])]
    /\ preprocessors = <<>>
    /\ sumPartialDissonances = TRUE
    /\ ret = <<>>
    /\ aborted = FALSE
    /\ calc = CalcUnused
    /\ args = <<>>
    /\ opt = OptIdle

\* what an out-of-range getReference write does: it lands in the array's
\* spare capacity and is lost, or the process stops at the failed assertion
OobOutcomes == {"lost", "stopped"}

CalculateDissonance ==
    /\ ~aborted
    /\ \E r \in {calculateDissonance(distributions, preprocessors,
                                      sumPartialDissonances)} :
           \/ /\ ~r.oob
              /\ distributions' = r.ds
              /\ ret' = r.dissonance
              /\ aborted' = FALSE
              /\ lastOp' = "calculateDissonance"
           \/ /\ r.oob
              /\ \E o \in OobOutcomes :
                    IF o = "lost"
                    THEN /\ distributions' = r.ds
                         /\ ret' = r.dissonance
                         /\ aborted' = FALSE
                         /\ lastOp' = "calculateDissonance"
                    ELSE /\ distributions' = r.cleared
                         /\ ret' = ret
                         /\ aborted' = TRUE
                         /\ lastOp' = "calculateDissonance stopped"
    /\ UNCHANGED <<tuning, file, dist, preprocessors, sumPartialDissonances, calc, args, opt>>

SetSumPartialDissonances ==
    /\ ~aborted
    /\ \E sum \in BOOLEAN : sumPartialDissonances' = sum
    /\ lastOp' = "setSumPartialDissonances"
    /\ UNCHANGED <<tuning, file, dist, distributions, preprocessors, ret, aborted, calc, args, opt>>

AddPreprocessor ==
    /\ ~aborted
    /\ Len(preprocessors) < MaxPre
    /\ preprocessors' = Append(preprocessors, NewHearingRangePreprocessor)
    /\ lastOp' = "addPreprocessor"
    /\ UNCHANGED <<tuning, file, dist, distributions, sumPartialDissonances, ret, aborted, calc,
                   args, opt>>

ClearPreprocessors ==
    /\ ~aborted
    /\ preprocessors' = <<>>
    /\ lastOp' = "clearPreprocessors"
    /\ UNCHANGED <<tuning, file, dist, distributions, sumPartialDissonances, ret, aborted, calc,
                   args, opt>>

NextCalc ==
    \/ CalculateDissonance
    \/ SetSumPartialDissonances
    \/ AddPreprocessor
    \/ ClearPreprocessors

SpecCalc == InitCalc /\ [][NextCalc]_vars

(***************************************************************************)
(* Claims about OvertoneDistribution, checked under Spec                   *)
(***************************************************************************)
\* num / den lies in the closed band [1 / m, m]
InClosedBand(m, num, den) ==
    /\ m >= 1
    /\ den # 0
    /\ IF den > 0 THEN den <= num * m /\ num <= m * den
                  ELSE den >= num * m /\ num >= m * den

\* num / den lies in the band [1 / m, m): minInterval itself is outside
InHalfOpenBand(m, num, den) ==
    /\ m >= 1
    /\ den # 0
    /\ IF den > 0 THEN den <= num * m /\ num < m * den
                  ELSE den >= num * m /\ num > m * den

Freqs(d) == {d.partials[i].freq : i \in 1..Len(d.partials)}

RejectedUnchanged(d, r) ==
    /\ \A a \in AmpInputs : addPartial(d, r, a) = d
    /\ \A i \in 1..Len(d.partials) : setFreqRatio(d, i, r) = d

C2_PartialsSorted ==
    \A i, j \in 1..Len(dist.partials) :
        i < j => dist.partials[i].freq <= dist.partials[j].freq

\* an accepted ratio update on a list of at least two partials
C2_Witness ==
    /\ lastOp = "setFreqRatio"
    /\ Len(dist.partials) >= 2
    /\ dist.partials[1].freq < dist.partials[2].freq

\* C3 as stated: in every reachable state no two distinct partials have a
\* ratio quotient inside [1/minInterval, minInterval], no two partials have
\* the same ratio, and no partial's ratio lies inside that band around 1.
C3_MinIntervalHolds ==
    /\ \A i, j \in 1..Len(dist.partials) :
           i # j =>
               /\ dist.partials[i].freq # dist.partials[j].freq
               /\ ~InClosedBand(dist.minInterval, dist.partials[i].freq,
                                dist.partials[j].freq)
    /\ \A i \in 1..Len(dist.partials) :
           ~InClosedBand(dist.minInterval, dist.partials[i].freq, 1)

\* C4 as stated: a call with a non-positive frequency or amplitude changes
\* nothing of the distribution.
NonPositiveCall ==
    \/ /\ lastOp' \in {"addPartial", "addPartial rejected"}
       /\ \E r \in FreqInputs, a \in AmpInputs :
              (r <= 0 \/ a <= 0) /\ dist' = addPartial(dist, r, a)
    \/ /\ lastOp' \in {"setFreqRatio", "setFreqRatio rejected"}
       /\ \E i \in PartialIdx, r \in FreqInputs :
              r <= 0 /\ dist' = setFreqRatio(dist, i, r)
    \/ /\ lastOp' = "setAmpRatio"
       /\ \E i \in PartialIdx, a \in AmpInputs :
              a <= 0 /\ dist' = setAmpRatio(dist, i, a)
    \/ /\ lastOp' = "setFundamental"
       /\ \E f \in FundFreqInputs, a \in FundAmpInputs :
              (f <= 0 \/ a <= 0) /\ dist' = setFundamental(dist, f, a)
    \/ /\ lastOp' = "setFundamentalFreq"
       /\ \E f \in FundFreqInputs : f <= 0 /\ dist' = setFundamentalFreq(dist, f)
    \/ /\ lastOp' = "setFundamentalAmp"
       /\ \E a \in FundAmpInputs : a <= 0 /\ dist' = setFundamentalAmp(dist, a)

C4_NonPositiveRejected == [][NonPositiveCall => dist' = dist]_vars

(***************************************************************************)
(* Claims about the interference-sum model and calculateDissonance,        *)
(* checked under SpecCalc.  In a state with lastOp = "calculateDissonance" *)
(* ret is the value the call returned and Seen is the collection the model *)
(* was given: the canonical distributions with the preprocessors' mutes.   *)
(***************************************************************************)
Evaluated == lastOp = "calculateDissonance"

Seen == processAll(preprocessors, distributions)

TermsOf(kind) == {k \in 1..Len(ret) : ret[k].kind = kind}

LivePartials(ds) ==
    {<<i, p>> \in (1..Len(ds)) \X (1..Len(CalcRatios)) :
        p <= Len(ds[i].partials) /\ ~ds[i].muted /\ ~ds[i].partials[p].muted}

LiveFundamentals(ds) ==
    {i \in 1..Len(ds) : ~ds[i].muted /\ ~ds[i].fundamental.muted}

\* the running totals of every entity
Totals(ds) ==
    [i \in 1..Len(ds) |->
        [fundamental |-> ds[i].fundamental.dissonance,
         partials |-> [p \in 1..Len(ds[i].partials) |-> ds[i].partials[p].dissonance]]]

\* everything but the running totals
WithoutTotals(ds) == [i \in 1..Len(ds) |-> CopyDistribution(ds[i])]

\* everything but the mute flags
WithoutFlags(d) ==
    [d EXCEPT !.muted = FALSE, !.fundamental.muted = FALSE,
              !.partials = [p \in 1..Len(@) |-> [@[p] EXCEPT !.muted = FALSE]]]

\* a muted partial, or a partial of a muted distribution, with its ratio or
\* its amplitude changed
MutedPartialChanges(ds) ==
    UNION {{[ds EXCEPT ![i] = setFreqRatio(@, p, @.partials[p].freq + 1)],
            [ds EXCEPT ![i] = setAmpRatio(@, p, @.partials[p].amp + 1)]} :
           <<i, p>> \in {e \in (1..Len(ds)) \X (1..Len(CalcRatios)) :
                            /\ e[2] <= Len(ds[e[1]].partials)
                            /\ \/ ds[e[1]].muted
                               \/ ds[e[1]].partials[e[2]].muted}}

FundamentalChanges(ds, is) ==
    UNION {{[ds EXCEPT ![i] = setFundamentalFreq(@, @.fundamental.freq * 2)],
            [ds EXCEPT ![i] = setFundamentalAmp(@, @.fundamental.amp + 1)]} :
           i \in is}

\* fundamentals that are muted or belong to a muted distribution
MutedFundamentals(ds) ==
    {i \in 1..Len(ds) : ds[i].muted \/ ds[i].fundamental.muted}

\* those of them whose distribution is muted or has no unmuted partial
MutedFundamentalsUnused(ds) ==
    {i \in MutedFundamentals(ds) :
        ds[i].muted \/ \A p \in 1..Len(ds[i].partials) : ds[i].partials[p].muted}

SameResult(changed) ==
    \A c \in changed :
        \E r \in {calculateDissonance(c, preprocessors, sumPartialDissonances)} :
            /\ r.dissonance = ret
            /\ Totals(r.ds) = Totals(distributions)

MuteChangesOnlyFlags ==
    \A i \in 1..Len(distributions), m \in BOOLEAN :
        /\ WithoutFlags(mute(distributions[i], m)) = WithoutFlags(distributions[i])
        /\ mute(distributions[i], m).muted = m
        /\ WithoutFlags(muteFundamental(distributions[i], m))
               = WithoutFlags(distributions[i])
        /\ \A p \in 1..Len(distributions[i].partials) :
               WithoutFlags(mutePartial(distributions[i], p, m))
                   = WithoutFlags(distributions[i])

C6_PartialPairsOnce ==
    Evaluated =>
        /\ \A a, b \in LivePartials(Seen) :
               a # b =>
                   Cardinality({k \in TermsOf("pp") :
                       {<<ret[k].d1, ret[k].p1>>, <<ret[k].d2, ret[k].p2>>} = {a, b}}) = 1
        /\ \A k \in TermsOf("pp") :
               /\ <<ret[k].d1, ret[k].p1>> # <<ret[k].d2, ret[k].p2>>
               /\ <<ret[k].d1, ret[k].p1>> \in LivePartials(Seen)
               /\ <<ret[k].d2, ret[k].p2>> \in LivePartials(Seen)
               /\ ret[k].f1 = getRealFreq(distributions[ret[k].d1], ret[k].p1)
               /\ ret[k].a1 = getRealAmp(distributions[ret[k].d1], ret[k].p1)
               /\ ret[k].f2 = getRealFreq(distributions[ret[k].d2], ret[k].p2)
               /\ ret[k].a2 = getRealAmp(distributions[ret[k].d2], ret[k].p2)
        /\ (/\ Len(Seen) = 2
            /\ LiveFundamentals(Seen) = {}
            /\ \A i \in 1..2 :
                   Cardinality({e \in LivePartials(Seen) : e[1] = i}) = 1)
               => Len(ret) = 1 /\ ret[1].kind = "pp"

\* an evaluation that paired two partials of one distribution and two
\* partials of different distributions
C6_Witness ==
    /\ Evaluated
    /\ \E k \in TermsOf("pp") : ret[k].d1 = ret[k].d2
    /\ \E k \in TermsOf("pp") : ret[k].d1 # ret[k].d2

\* C7: every unordered pair of distinct unmuted distributions with unmuted
\* fundamentals contributes roughness(fund_i, fund_j) exactly once, and no
\* other fundamental-fundamental term exists.
C7_FundamentalPairsOnce ==
    Evaluated =>
        /\ \A i, j \in LiveFundamentals(Seen) :
               i # j =>
                   Cardinality({k \in TermsOf("ff") :
                       {ret[k].d1, ret[k].d2} = {i, j}}) = 1
        /\ \A k \in TermsOf("ff") :
               /\ ret[k].d1 # ret[k].d2
               /\ ret[k].d1 \in LiveFundamentals(Seen)
               /\ ret[k].d2 \in LiveFundamentals(Seen)
               /\ ret[k].f1 = distributions[ret[k].d1].fundamental.freq
               /\ ret[k].a1 = distributions[ret[k].d1].fundamental.amp
               /\ ret[k].f2 = distributions[ret[k].d2].fundamental.freq
               /\ ret[k].a2 = distributions[ret[k].d2].fundamental.amp

\* an evaluation of two unmuted fundamentals
C7_Witness ==
    /\ Evaluated
    /\ Cardinality(LiveFundamentals(Seen)) >= 2
    /\ TermsOf("ff") # {}

\* C8: every unmuted partial of an unmuted distribution is paired exactly
\* once with the fundamental of every unmuted distribution whose
\* fundamental is unmuted, its own distribution's included, and no other
\* partial-fundamental term exists.
C8_PartialFundamentalOnce ==
    Evaluated =>
        /\ \A a \in LivePartials(Seen), i \in LiveFundamentals(Seen) :
               Cardinality({k \in TermsOf("pf") :
                   <<ret[k].d1, ret[k].p1>> = a /\ ret[k].d2 = i}) = 1
        /\ \A k \in TermsOf("pf") :
               /\ <<ret[k].d1, ret[k].p1>> \in LivePartials(Seen)
               /\ ret[k].d2 \in LiveFundamentals(Seen)
               /\ ret[k].f1 = getRealFreq(distributions[ret[k].d1], ret[k].p1)
               /\ ret[k].a1 = getRealAmp(distributions[ret[k].d1], ret[k].p1)
               /\ ret[k].f2 = distributions[ret[k].d2].fundamental.freq
               /\ ret[k].a2 = distributions[ret[k].d2].fundamental.amp

\* an evaluation that paired a partial with its own fundamental and with
\* another distribution's
C8_Witness ==
    /\ Evaluated
    /\ \E k \in TermsOf("pf") : ret[k].d1 = ret[k].d2
    /\ \E k \in TermsOf("pf") : ret[k].d1 # ret[k].d2

\* number of times term t was added to a running total
Count(total, t) == Cardinality({k \in 1..Len(total) : total[k] = t})

\* C9 as stated: with accumulate = true each contribution adds half of its
\* value to the running total of each of its two participants (the partial
\* by its own index in its own distribution, or the fundamental) and to no
\* other entity.
C9_HalvesToParticipants ==
    (Evaluated /\ sumPartialDissonances) =>
        \A k \in 1..Len(ret), i \in 1..Len(distributions) :
            /\ Count(distributions[i].fundamental.dissonance, ret[k])
                   = IF <<i, 0>> \in {<<ret[k].d1, ret[k].p1>>, <<ret[k].d2, ret[k].p2>>}
                     THEN 1 ELSE 0
            /\ \A p \in 1..Len(distributions[i].partials) :
                   Count(distributions[i].partials[p].dissonance, ret[k])
                       = IF <<i, p>> \in {<<ret[k].d1, ret[k].p1>>,
                                          <<ret[k].d2, ret[k].p2>>}
                         THEN 1 ELSE 0

\* C10: calculateDissonance leaves every canonical distribution as it was
\* except for the running totals, and leaves those too when accumulation is
\* disabled, whatever the preprocessors do to the working copy.
C10_CanonicalUnchanged ==
    [][lastOp' \in {"calculateDissonance", "calculateDissonance stopped"} =>
          /\ WithoutTotals(distributions') = WithoutTotals(distributions)
          /\ ~sumPartialDissonances => distributions' = distributions]_vars

\* an accumulating evaluation whose preprocessor muted entities of the
\* working copy
C10_Witness ==
    /\ Evaluated
    /\ sumPartialDissonances
    /\ preprocessors # <<>>
    /\ WithoutTotals(Seen) # WithoutTotals(distributions)
    /\ \E i \in 1..Len(distributions) : distributions[i].fundamental.dissonance # <<>>

(***************************************************************************)
(* DissonanceCalc: range, steps and dissonance maps (DissonanceCalc.cpp)   *)
(*                                                                         *)
(* juce::Array and juce::Range behave as their documentation says:         *)
(* operator[] returns the element by value (a default-constructed one for  *)
(* an index out of range), set() replaces an element or appends when the   *)
(* index is at or past the end, resize() truncates or pads with default    *)
(* elements; Range::setStart and setEnd keep start <= end, contains() is   *)
(* start <= x < end.  The float 0 of an empty map entry is the empty sum.  *)
(***************************************************************************)
\* Array::operator[] (1-based here)
arrayAt(a, i, default) == IF i \in 1..Len(a) THEN a[i] ELSE default

\* Array::set
arraySet(a, i, v) ==
    IF i \in 1..Len(a) THEN [a EXCEPT ![i] = v]
    ELSE IF i > Len(a) THEN Append(a, v)
    ELSE a

\* Array::resize
arrayResize(a, n, default) ==
    IF n <= Len(a) THEN SubSeq(a, 1, n)
    ELSE a \o [k \in 1..(n - Len(a)) |-> default]

\* Range::setStart
rangeSetStart(r, newStart) ==
    [start |-> newStart, end |-> IF r.end < newStart THEN newStart ELSE r.end]

\* Range::setEnd
rangeSetEnd(r, newEnd) ==
    [start |-> IF newEnd < r.start THEN newEnd ELSE r.start, end |-> newEnd]

\* Range::isEmpty
rangeIsEmpty(r) == r.start = r.end

\* Range::contains
rangeContains(r, x) == r.start <= x /\ x < r.end

RECURSIVE Pow(_, _)
Pow(b, e) == IF e = 0 THEN 1 ELSE b * Pow(b, e - 1)

\* pow (x, 1.0 / n) for the x and n the model offers, whose n-th root is whole
Root(x, n) == CHOOSE r \in 1..x : Pow(r, n) = x

\* x / n for the x and n the model offers, whose quotient is whole
Quotient(x, n) == CHOOSE q \in 0..x : q * n = x

\* DissonanceCalc::setStepSize.  An empty range is 0..0 (0 / 0 is NaN), a
\* division by numSteps = 0 gives an infinity or NaN
setStepSize(c) ==
    [c EXCEPT !.stepSize =
        IF c.logSteps
        THEN IF c.frequencyRange.start = 0 THEN NaN
             ELSE IF c.numSteps = 0 THEN Inf
             ELSE Num(Root(Quotient(c.frequencyRange.end, c.frequencyRange.start),
                           c.numSteps))
        ELSE IF c.numSteps = 0
             THEN IF c.frequencyRange.end = c.frequencyRange.start THEN NaN ELSE Inf
             ELSE Num(Quotient(c.frequencyRange.end - c.frequencyRange.start,
                               c.numSteps))]

\* DissonanceCalc::resizeMap.  In the 3D branch map3D[i] is a copy of the
\* row, so resizing it leaves the stored row as it was
resizeMap(c) ==
    IF c.dimensionality = 2
    THEN [c EXCEPT !.map2D = arrayResize(@, c.numSteps, <<>>)]
    ELSE IF c.dimensionality = 3
    THEN LET outer == arrayResize(c.map3D, c.numSteps, <<>>)
             resizedCopies == [i \in 1..c.numSteps |->
                                  arrayResize(arrayAt(outer, i, <<>>), c.numSteps, <<>>)]
         IN  [c EXCEPT !.map3D = outer]
    ELSE c

\* setRange without the call of setStepSize
setRangeWithoutStep(c, startFreq, endFreq) ==
    IF startFreq > 0 /\ endFreq > startFreq
    THEN [c EXCEPT !.frequencyRange = rangeSetEnd(rangeSetStart(@, startFreq), endFreq)]
    ELSE c

\* DissonanceCalc::setRange: the jasserts do not stop the call
setRange(c, startFreq, endFreq) ==
    LET ranged ==
            IF startFreq > 0 /\ endFreq > startFreq
            THEN [c EXCEPT !.frequencyRange =
                     rangeSetEnd(rangeSetStart(@, startFreq), endFreq)]
            ELSE c
    IN  IF ranged.numSteps > 1 THEN setStepSize(ranged) ELSE ranged

\* setNumSteps without the test of newNumSteps
setNumStepsUntested(c, newNumSteps) ==
    LET resized == resizeMap([c EXCEPT !.numSteps = newNumSteps])
    IN  IF ~rangeIsEmpty(resized.frequencyRange) THEN setStepSize(resized)
        ELSE resized

\* DissonanceCalc::setNumSteps
setNumSteps(c, newNumSteps) ==
    IF newNumSteps > 0
    THEN LET resized == resizeMap([c EXCEPT !.numSteps = newNumSteps])
         IN  IF ~rangeIsEmpty(resized.frequencyRange) THEN setStepSize(resized)
             ELSE resized
    ELSE c

\* DissonanceCalc::useLogarithmicSteps
useLogarithmicSteps(c, useLogSteps) == setStepSize([c EXCEPT !.logSteps = useLogSteps])

\* DissonanceCalc::setNumDimensions
setNumDimensions(c, newDimensionality) ==
    resizeMap([c EXCEPT !.dimensionality = newDimensionality])

\* DissonanceCalc::setModel
setModel(c) == [c EXCEPT !.model = TRUE]

set2dVariableDistribution(c, distributionIndex) ==
    [c EXCEPT !.varDist = distributionIndex]

setXVariableDistribution(c, distributionIndex) == [c EXCEPT !.xDist = distributionIndex]

setYVariableDistribution(c, distributionIndex) == [c EXCEPT !.yDist = distributionIndex]

\* the frequency handed back as it came
incrementFrequencyNone(c, frequency) == frequency

\* DissonanceCalc::incrementFrequency
incrementFrequency(c, frequency) ==
    IF c.logSteps THEN frequency * c.stepSize.v ELSE frequency + c.stepSize.v

\* the test with at least one distribution instead of at least two
isReadyToProcessNotEmpty(c, ds) ==
    IF Len(ds) > 0 /\ ~rangeIsEmpty(c.frequencyRange) /\ c.model /\ c.numSteps > 1
    THEN \A d \in 1..Len(ds) :
             /\ ~(/\ ds[d].fundamental.freq <= 0
                  /\ ~rangeContains(c.frequencyRange,
                                    ds[d].fundamental.freq * c.frequencyRange.start))
             /\ \A p \in 1..Len(ds[d].partials) :
                    ~(ds[d].partials[p].freq <= 0 \/ ds[d].partials[p].amp <= 0)
    ELSE FALSE

\* DissonanceCalc::isReadyToProcess: the loops return false at the first
\* distribution or partial that fails its test
isReadyToProcess(c, ds) ==
    IF Len(ds) > 1 /\ ~rangeIsEmpty(c.frequencyRange) /\ c.model /\ c.numSteps > 1
    THEN \A d \in 1..Len(ds) :
             /\ ~(/\ ds[d].fundamental.freq <= 0
                  /\ ~rangeContains(c.frequencyRange,
                                    ds[d].fundamental.freq * c.frequencyRange.start))
             /\ \A p \in 1..Len(ds[d].partials) :
                    ~(ds[d].partials[p].freq <= 0 \/ ds[d].partials[p].amp <= 0)
    ELSE FALSE

\* one grid point without the preprocessors
evaluatePointUnprocessed(ds, pres) ==
    modelCalculateDissonance(addCopiesOf(ds), FALSE).dissonance

\* one grid point (lines 401-409, 427-435): a fresh working copy, the
\* preprocessors in list order, the model without accumulation
evaluatePoint(ds, pres) ==
    modelCalculateDissonance(processAll(pres, addCopiesOf(ds)), FALSE).dissonance

\* the first frequency of the sweep being the one after start
sweepStartAdvanced(c) == incrementFrequency(c, c.frequencyRange.start)

\* float currentFreq = frequencyRange.getStart()
sweepStart(c) == c.frequencyRange.start

\* the 2D loop from step i on (lines 399-413); currentFreq is already set on
\* the variable distribution
RECURSIVE sweep2D(_, _, _, _, _)
sweep2D(c, ds, pres, i, currentFreq) ==
    IF i > c.numSteps THEN [calc |-> c, ds |-> ds, computed |-> <<>>]
    ELSE LET next == incrementFrequency(c, currentFreq)
         IN  sweep2D([c EXCEPT !.map2D = arraySet(@, i, evaluatePoint(ds, pres))],
                     [ds EXCEPT ![c.varDist] = setFundamentalFreq(@, next)],
                     pres, i + 1, next)

\* frequency after k increments
RECURSIVE advance(_, _, _)
advance(c, frequency, k) ==
    IF k = 0 THEN frequency ELSE incrementFrequency(c, advance(c, frequency, k - 1))

\* the distributions as the 3D loops have set them when step (xStep, yStep)
\* is evaluated: the x-axis frequency was set before the y-axis frequency
at3D(c, ds, xStep, yStep) ==
    LET xSet == [ds EXCEPT ![c.xDist] =
                    setFundamentalFreq(@, advance(c, sweepStart(c), xStep - 1))]
    IN  [xSet EXCEPT ![c.yDist] =
            setFundamentalFreq(@, advance(c, sweepStart(c), yStep - 1))]

\* the 3D branch (lines 415-448).  map3D[xStep] is a copy of the row, so
\* set() fills the copy (computed) and the stored row stays as it was.  At
\* the end the x-axis distribution has been advanced numSteps times and the
\* y-axis distribution is back at the start
sweep3D(c, ds, pres) ==
    LET rowCopies ==
            [xStep \in 1..c.numSteps |->
                [yStep \in 1..c.numSteps |->
                    arraySet(arrayAt(c.map3D, xStep, <<>>), yStep,
                             evaluatePoint(at3D(c, ds, xStep, yStep), pres))]]
        xDone == [ds EXCEPT ![c.xDist] =
                     setFundamentalFreq(@, advance(c, sweepStart(c), c.numSteps))]
    IN  [calc |-> c,
         ds |-> [xDone EXCEPT ![c.yDist] = setFundamentalFreq(@, sweepStart(c))],
         computed |-> rowCopies]

\* DissonanceCalc::calculateDissonanceMap
calculateDissonanceMap(c, ds, pres) ==
    IF c.dimensionality = 2
    THEN sweep2D(c, [ds EXCEPT ![c.varDist] = setFundamentalFreq(@, sweepStart(c))],
                 pres, 1, sweepStart(c))
    ELSE IF c.dimensionality = 3
    THEN sweep3D(c, ds, pres)
    ELSE [calc |-> c, ds |-> ds, computed |-> <<>>]

\* DissonanceCalc::getDissonanceAtStep (int)
getDissonanceAtStep(c, step) == arrayAt(c.map2D, step, <<>>)

\* DissonanceCalc::getDissonanceAtStep (int, int)
getDissonanceAtStep3D(c, xStep, yStep) ==
    arrayAt(arrayAt(c.map3D, xStep, <<>>), yStep, <<>>)

\* the preprocessors a copy-constructed DissonanceCalc holds: line 28 is
\* commented out, the copy has none
copiedPreprocessors(pres) == <<>>

\* opt2D: the objective NLopt calls.  It evaluates a copy of the
\* DissonanceCalc with the variable distribution's fundamental at x
opt2D(c, ds, pres, sum, x) ==
    calculateDissonance([addCopiesOf(ds) EXCEPT ![c.varDist] = setFundamentalFreq(@, x)],
                        copiedPreprocessors(pres), sum)

\* DissonanceCalc::getDissonanceAtFreq (float)
getDissonanceAtFreq(c, ds, pres, sum, freq) ==
    calculateDissonance([ds EXCEPT ![c.varDist] = setFundamentalFreq(@, freq)], pres, sum)

(***************************************************************************)
(* SpecMap: a DissonanceCalc set up for dissonance maps                    *)
(***************************************************************************)
\* ranges and step counts offered to a configured DissonanceCalc: end / start
\* is a whole power and end - start a whole multiple of every step count
MapRanges == {<<4, 64>>, <<4, 1024>>}
MapNumSteps == {2, 4}
\* frequencies NLopt evaluates the objective at
ObjectiveInputs == {4, 32}

\* a distribution with n unmuted partials
PlainDistribution(f, n) ==
    BuildDistribution(f, [k \in 1..n |-> FALSE], FALSE, FALSE)

\* a DissonanceCalc after setModel, setRange, setNumSteps,
\* useLogarithmicSteps, set2dVariableDistribution and
\* setYVariableDistribution (1); the x axis keeps the constructor's index
ConfiguredCalc(range, numSteps, logSteps, variable) ==
    setYVariableDistribution(
        set2dVariableDistribution(
            useLogarithmicSteps(
                setNumSteps(setRange(setModel(NewCalc(0, Num(0))), range[1], range[2]),
                            numSteps),
                logSteps),
            variable),
        2)

InitMap ==
    /\ dist = NewDistribution
    /\ tuning = <<>>
    /\ file = <<>>
    /\ lastOp = "configure"
    /\ \E n \in {MaxDists}, k \in 1..Len(CalcRatios), evaluated \in BOOLEAN :
           /\ \E ds \in {[i \in 1..n |-> PlainDistribution(CalcFundFreq(i), k)]} :
                  \* with or without the running totals an earlier accumulating
                  \* calculateDissonance left
                  \E r \in {calculateDissonance(ds, <<>>, TRUE)} :
                      distributions = IF evaluated /\ ~r.oob THEN r.ds ELSE ds
           /\ \E range \in MapRanges, numSteps \in MapNumSteps, logSteps \in BOOLEAN,
                 variable \in 1..n :
                  calc = ConfiguredCalc(range, numSteps, logSteps, variable)
    /\ preprocessors = <<>>
    /\ sumPartialDissonances = TRUE
    /\ ret = <<>>
    /\ aborted = FALSE
    /\ args = <<>>
    /\ opt = OptIdle

\* a call that changes the configuration only; a are its arguments
ConfigureWith(op, c, a) ==
    /\ ~aborted
    /\ calc' = c
    /\ lastOp' = op
    /\ ret' = <<>>
    /\ args' = a
    /\ UNCHANGED <<tuning, file, dist, distributions, preprocessors, sumPartialDissonances, aborted, opt>>

Configure(op, c) == ConfigureWith(op, c, <<>>)

SetNumSteps(counts) ==
    \E n \in counts : ConfigureWith("setNumSteps", setNumSteps(calc, n), <<n>>)

SetNumDimensions ==
    \E d \in {2, 3} : Configure("setNumDimensions", setNumDimensions(calc, d))

\* the distributions the sweep indexes exist
AxesInBounds ==
    {calc.varDist, calc.xDist, calc.yDist} \subseteq 1..Len(distributions)

CalculateDissonanceMap ==
    /\ ~aborted
    /\ isReadyToProcess(calc, distributions)
    /\ AxesInBounds
    /\ \E r \in {calculateDissonanceMap(calc, distributions, preprocessors)} :
           /\ calc' = r.calc
           /\ distributions' = r.ds
           /\ ret' = r.computed
    /\ lastOp' = "calculateDissonanceMap"
    /\ args' = <<>>
    /\ UNCHANGED <<tuning, file, dist, preprocessors, sumPartialDissonances, aborted, opt>>

Opt2D ==
    /\ ~aborted
    /\ AxesInBounds
    /\ \E x \in ObjectiveInputs :
           \E r \in {opt2D(calc, distributions, preprocessors,
                           sumPartialDissonances, x)} :
               /\ args' = <<x>>
               /\ \E o \in IF r.oob THEN OobOutcomes ELSE {"none"} :
                      IF o = "stopped"
                      THEN /\ ret' = <<>>
                           /\ aborted' = TRUE
                           /\ lastOp' = "opt2D stopped"
                      ELSE /\ ret' = r.dissonance
                           /\ aborted' = FALSE
                           /\ lastOp' = "opt2D"
    /\ UNCHANGED <<tuning, file, dist, distributions, preprocessors, sumPartialDissonances, calc, opt>>

\* DissonanceCalc::addPreprocessor with a HearingRangePreprocessor
MapAddPreprocessor ==
    /\ Len(preprocessors) < MaxPre
    /\ preprocessors' = Append(preprocessors, NewHearingRangePreprocessor)
    /\ calc' = calc
    /\ lastOp' = "addPreprocessor"
    /\ ret' = <<>>
    /\ args' = <<>>
    /\ UNCHANGED <<tuning, file, dist, distributions, sumPartialDissonances, aborted, opt>>

NextMap ==
    \/ SetNumDimensions
    \/ MapAddPreprocessor
    \/ CalculateDissonanceMap
    \/ Opt2D

SpecMap == InitMap /\ [][NextMap]_vars

(***************************************************************************)
(* Claims about the preprocessor pipeline and the dissonance maps, checked *)
(* under SpecMap                                                           *)
(***************************************************************************)
\* frequency of step i (from 0) of the sweep: start + i * step, or
\* start * step^i with logarithmic steps
StepFrequency(c, i) ==
    IF c.logSteps THEN c.frequencyRange.start * Pow(c.stepSize.v, i)
    ELSE c.frequencyRange.start + i * c.stepSize.v

\* the single evaluation of this DissonanceCalc, accumulating or not, with
\* distribution d's fundamental at frequency f
SingleEvaluation(ds, d, f, sum) ==
    calculateDissonance([ds EXCEPT ![d] = setFundamentalFreq(@, f)], preprocessors,
                        sum).dissonance

Swept2D == lastOp = "calculateDissonanceMap" /\ calc.dimensionality = 2

Swept3D == lastOp = "calculateDissonanceMap" /\ calc.dimensionality = 3

\* C11 as stated: the preprocessors are applied, in list order and each
\* once, to the working copy before every model evaluation: every grid point
\* of a sweep holds the single evaluation at its frequency, and the
\* objective opt2D returns at frequency f is the single-evaluation
\* dissonance at f of the same DissonanceCalc.
C11_PipelineBeforeEveryEvaluation ==
    /\ Swept2D =>
           \A i \in 0..(calc.numSteps - 1) :
               getDissonanceAtStep(calc, i + 1)
                   = SingleEvaluation(distributions, calc.varDist,
                                      StepFrequency(calc, i), sumPartialDissonances)
    /\ lastOp = "opt2D" =>
           ret = SingleEvaluation(distributions, calc.varDist, args[1],
                                  sumPartialDissonances)

C14_Map3DValues ==
    (Swept3D /\ calc.xDist # calc.yDist) =>
        /\ Len(calc.map3D) = calc.numSteps
        /\ \A x \in 1..Len(calc.map3D) : Len(calc.map3D[x]) = calc.numSteps
        /\ \A x, y \in 0..(calc.numSteps - 1) :
               getDissonanceAtStep3D(calc, x + 1, y + 1)
                   = calculateDissonance(
                         [distributions EXCEPT
                             ![calc.xDist] = setFundamentalFreq(@, StepFrequency(calc, x)),
                             ![calc.yDist] = setFundamentalFreq(@, StepFrequency(calc, y))],
                         preprocessors, FALSE).dissonance

(***************************************************************************)
(* SpecConfig: a DissonanceCalc from its constructor on, driven through    *)
(* the range, step and model setters and isReadyToProcess                  *)
(***************************************************************************)
\* what the uninitialized numSteps and stepSize hold after the constructor:
\* a step count not above 1 and one above 1; any two step sizes
UninitNumSteps == {0, 2}
UninitStepSizes == {Num(0), Num(7)}

\* arguments offered to setRange and setNumSteps: the valid ones, a start
\* that is not positive, an end below the start, an end equal to the start,
\* step counts 0 and 1
ConfigRanges == MapRanges \cup {<<0, 64>>, <<64, 4>>, <<4, 4>>}
ConfigNumSteps == MapNumSteps \cup {0, 1}

\* distributions as the mutators build them: a complete one, one whose
\* fundamental was never set, one with the empty partial addPartial() adds,
\* one with a partial of amplitude 0, one with a negative ratio
ConfigDistributions ==
    {PlainDistribution(100, 1),
     addPartial(NewDistribution, 2, 1),
     addPartial0(PlainDistribution(100, 1)),
     addPartial(setFundamental(NewDistribution, 100, 1), 2, 0),
     setFreqRatio(PlainDistribution(100, 1), 1, -1)}

InitConfig ==
    /\ dist = NewDistribution
    /\ tuning = <<>>
    /\ file = <<>>
    /\ lastOp = "construct"
    /\ \E n \in 1..MaxDists : distributions \in [1..n -> ConfigDistributions]
    /\ preprocessors = <<>>
    /\ sumPartialDissonances = TRUE
    /\ ret = <<>>
    /\ aborted = FALSE
    /\ \E n \in UninitNumSteps, step \in UninitStepSizes : calc = NewCalc(n, step)
    /\ args = <<>>
    /\ opt = OptIdle

SetRange(ranges) ==
    \E r \in ranges : ConfigureWith("setRange", setRange(calc, r[1], r[2]), r)

UseLogarithmicSteps ==
    \E b \in BOOLEAN : Configure("useLogarithmicSteps", useLogarithmicSteps(calc, b))

SetModel == Configure("setModel", setModel(calc))

IsReadyToProcess ==
    /\ ret' = <<isReadyToProcess(calc, distributions)>>
    /\ lastOp' = "isReadyToProcess"
    /\ args' = <<>>
    /\ UNCHANGED <<tuning, file, dist, distributions, preprocessors, sumPartialDissonances, aborted,
                   calc, opt>>

NextConfig ==
    \/ SetRange(ConfigRanges)
    \/ SetNumSteps(ConfigNumSteps)
    \/ UseLogarithmicSteps
    \/ SetModel
    \/ IsReadyToProcess

SpecConfig == InitConfig /\ [][NextConfig]_vars

(***************************************************************************)
(* Claims about the sweep configuration, checked under SpecConfig          *)
(***************************************************************************)
RangeValid(c) == 0 < c.frequencyRange.start /\ c.frequencyRange.start < c.frequencyRange.end

\* C13: whenever the range is valid (0 < start < end) and numSteps > 1,
\* after any sequence of setRange, setNumSteps and useLogarithmicSteps calls,
\* rejected ones included, getStepSize is the step of the current
\* configuration: (end - start) / numSteps in linear mode and
\* (end / start)^(1 / numSteps) in logarithmic mode; the range [100, 200]
\* with 10 linear steps gives step 10.
C13_StepSizeCurrent ==
    /\ (RangeValid(calc) /\ calc.numSteps > 1) =>
           /\ calc.stepSize.kind = "num"
           /\ IF calc.logSteps
              THEN calc.frequencyRange.start * Pow(calc.stepSize.v, calc.numSteps)
                       = calc.frequencyRange.end
              ELSE calc.stepSize.v * calc.numSteps
                       = calc.frequencyRange.end - calc.frequencyRange.start
    /\ ~calc.logSteps =>
           /\ setNumSteps(setRange(calc, 100, 200), 10).stepSize = Num(10)
           /\ setRange(setNumSteps(calc, 10), 100, 200).stepSize = Num(10)

\* a valid configuration reached through a rejected call, in each mode
C13_Witness ==
    /\ lastOp = "setRange"
    /\ RangeValid(calc)
    /\ calc.numSteps = 4
    /\ calc.logSteps
    /\ setRange(calc, 64, 4) = calc
    /\ calc.stepSize = Num(4)

MaxStarts == 3

OptFrequencies == {2000, 2001, 2003}

OptDissonances == {1, 2}

\* Array::contains
arrayContains(a, v) == \E i \in 1..Len(a) : a[i] = v

\* Array::indexOf
arrayIndexOf(a, v) ==
    IF arrayContains(a, v) THEN CHOOSE i \in 1..Len(a) :
                                    a[i] = v /\ \A j \in 1..(i - 1) : a[j] # v
    ELSE 0

\* Array::insert
arrayInsert(a, index, v) ==
    IF index \in 1..Len(a)
    THEN SubSeq(a, 1, index - 1) \o <<v>> \o SubSeq(a, index, Len(a))
    ELSE Append(a, v)

\* Array::remove
arrayRemove(a, index) ==
    IF index \in 1..Len(a)
    THEN SubSeq(a, 1, index - 1) \o SubSeq(a, index + 1, Len(a))
    ELSE a

\* Array::add in the place of addUsingDefaultSort
addAtEnd(a, v) == Append(a, v)

\* Array::addUsingDefaultSort on an array this is the only way into
addUsingDefaultSort(a, v) ==
    arrayInsert(a, Cardinality({i \in 1..Len(a) : a[i] <= v}) + 1, v)

\* tooClose.contains (y) after tooClose.setStart (x / 1.001) and
\* tooClose.setEnd (x * 1.001): for a positive x the two calls leave the
\* range [x / 1.001, x * 1.001) whatever it was before
tooCloseContains(x, y) == 1000 * x <= 1001 * y /\ 1000 * y < 1001 * x

\* the loop over optimizedValues that follows the insertion; index is never
\* updated when an entry is removed
RECURSIVE removeTooClose(_, _, _, _, _)
removeTooClose(optimizedValues, dissValues, x, index, i) ==
    IF i > Len(optimizedValues)
    THEN [optimizedValues |-> optimizedValues, dissValues |-> dissValues]
    ELSE IF i # index /\ tooCloseContains(x, optimizedValues[i])
    THEN IF arrayAt(dissValues, index, 0) < arrayAt(dissValues, i, 0)
         THEN removeTooClose(arrayRemove(optimizedValues, i),
                             arrayRemove(dissValues, i), x, index, i + 1)
         ELSE removeTooClose(arrayRemove(optimizedValues, index),
                             arrayRemove(dissValues, index), x, index, i + 1)
    ELSE removeTooClose(optimizedValues, dissValues, x, index, i + 1)

\* the body of the loop once the optimizer has returned x and dissonanceValue
fileResult(optimizedValues, dissValues, x, dissonanceValue) ==
    IF arrayContains(optimizedValues, x)
    THEN [optimizedValues |-> optimizedValues, dissValues |-> dissValues]
    ELSE LET added == addUsingDefaultSort(optimizedValues, x)
             index == arrayIndexOf(added, x)
         IN  removeTooClose(added, arrayInsert(dissValues, index, dissonanceValue),
                            x, index, 1)

\* the list optimize2D works on
optimizedValuesOf(c, minimize) == IF minimize THEN c.minima ELSE c.maxima

\* the canonical distributions after the optimizer has called opt2D at x:
\* opt2D sets the fundamental in a copy of the DissonanceCalc, whose
\* distributions are copies, and evaluates the copy
distributionsAfterOpt2D(c, ds, x) ==
    LET temp == [addCopiesOf(ds) EXCEPT ![c.varDist] = setFundamentalFreq(@, x)]
    IN  ds

(***************************************************************************)
(* SpecOpt: optimize2D on a calculator with a range, run any number of     *)
(* times in either direction.                                              *)
(***************************************************************************)
InitOpt ==
    /\ dist = NewDistribution
    /\ tuning = <<>>
    /\ file = <<>>
    /\ lastOp = "configure"
    /\ distributions = [i \in 1..MaxDists |-> PlainDistribution(CalcFundFreq(i), 1)]
    /\ preprocessors = <<>>
    /\ sumPartialDissonances = TRUE
    /\ ret = <<>>
    /\ aborted = FALSE
    /\ calc = setRange(setModel(NewCalc(0, Num(0))), 2000, 2004)
    /\ args = <<>>
    /\ opt = OptIdle

\* optimize2D up to the loop
BeginOptimize2D ==
    /\ ~aborted
    /\ opt.pc = "idle"
    /\ \E minimize \in BOOLEAN, objective \in [OptFrequencies -> OptDissonances],
          starts \in 0..MaxStarts :
           /\ opt' = [pc |-> "loop", minimize |-> minimize, objective |-> objective,
                      dissValues |-> <<>>, starts |-> starts]
           /\ calc' = IF minimize THEN [calc EXCEPT !.minima = <<>>]
                                  ELSE [calc EXCEPT !.maxima = <<>>]
           /\ args' = <<minimize>>
    /\ lastOp' = "optimize2D begin"
    /\ ret' = <<>>
    /\ UNCHANGED <<tuning, file, dist, distributions, preprocessors, sumPartialDissonances, aborted>>

\* one pass of the loop: a start of the optimizer and the filing of its result
OptimizeFromStart ==
    /\ ~aborted
    /\ opt.pc = "loop"
    /\ opt.starts > 0
    /\ \E x \in OptFrequencies :
           \E r \in {fileResult(optimizedValuesOf(calc, opt.minimize), opt.dissValues,
                                x, opt.objective[x])} :
               /\ calc' = IF opt.minimize THEN [calc EXCEPT !.minima = r.optimizedValues]
                                          ELSE [calc EXCEPT !.maxima = r.optimizedValues]
               /\ opt' = [opt EXCEPT !.dissValues = r.dissValues, !.starts = @ - 1]
               /\ args' = <<x, opt.objective[x]>>
               /\ distributions' = distributionsAfterOpt2D(calc, distributions, x)
    /\ lastOp' = "optimize2D start"
    /\ ret' = <<>>
    /\ UNCHANGED <<tuning, file, dist, preprocessors, sumPartialDissonances, aborted>>

\* the loop ends and optimize2D returns
EndOptimize2D ==
    /\ ~aborted
    /\ opt.pc = "loop"
    /\ opt.starts = 0
    /\ opt' = OptIdle
    /\ lastOp' = "optimize2D"
    /\ args' = <<opt.minimize>>
    /\ ret' = opt.dissValues
    /\ UNCHANGED <<tuning, file, dist, distributions, preprocessors, sumPartialDissonances, aborted,
                   calc>>

NextOpt ==
    \/ BeginOptimize2D
    \/ OptimizeFromStart
    \/ EndOptimize2D

SpecOpt == InitOpt /\ [][NextOpt]_vars

\* two frequencies within 0.1% of each other
WithinTolerance(fa, fb) == 1000 * fa <= 1001 * fb /\ 1000 * fb <= 1001 * fa

NoTwoWithinTolerance(list) ==
    \A a, b \in 1..Len(list) : a # b => ~WithinTolerance(list[a], list[b])

\* C16: once optimize2D has completed, the list it worked on (minima or
\* maxima) holds no two entries within 0.1% of each other, also when a
\* result was close to two entries the list already held.
C16_NoTwoEntriesWithinTolerance ==
    lastOp = "optimize2D" => NoTwoWithinTolerance(optimizedValuesOf(calc, args[1]))

\* the entries of the list a new result x is within tolerance of
closeEntries(list, x) == {i \in 1..Len(list) : WithinTolerance(x, list[i])}

\* C17: when a new result is within tolerance of an existing entry, the one
\* with the better score survives (the lower dissonance when minimizing, the
\* higher when maximizing) and the other is dropped, and the dissonance kept
\* beside each surviving frequency is the one computed for that frequency.
C17_BetterScoreSurvives ==
    [][(/\ lastOp' = "optimize2D start"
        /\ ~arrayContains(optimizedValuesOf(calc, opt.minimize), args'[1])
        /\ Cardinality(closeEntries(optimizedValuesOf(calc, opt.minimize), args'[1])) = 1)
       => LET before == optimizedValuesOf(calc, opt.minimize)
              after == optimizedValuesOf(calc', opt.minimize)
              x == args'[1]
              old == before[CHOOSE i \in closeEntries(before, x) : TRUE]
              better(f, g) == IF opt.minimize
                              THEN opt.objective[f] < opt.objective[g]
                              ELSE opt.objective[f] > opt.objective[g]
          IN  /\ arrayContains(after, x) # arrayContains(after, old)
              /\ better(x, old) => arrayContains(after, x)
              /\ better(old, x) => arrayContains(after, old)
              /\ Len(opt'.dissValues) = Len(after)
              /\ \A k \in 1..Len(after) :
                     opt'.dissValues[k] = opt.objective[after[k]]]_vars

(***************************************************************************)
(* HearingRangePreprocessor on its own: setHearingRange, getHearingRange   *)
(* and process.                                                            *)
(***************************************************************************)
\* Range::withStartAndLength: a new range, the receiver is left as it is
rangeWithStartAndLength(r, newStart, length) ==
    [start |-> newStart,
     end |-> IF newStart + length < newStart THEN newStart ELSE newStart + length]

\* HearingRangePreprocessor::setHearingRange: the range withStartAndLength
\* returns is dropped
setHearingRange(pre, lowerLimit, upperLimit) ==
    LET dropped == rangeWithStartAndLength(pre, lowerLimit, upperLimit - lowerLimit)
    IN  pre

\* HearingRangePreprocessor::getHearingRange
getHearingRange(pre) == <<pre.start, pre.end>>

HearingRanges == {<<20, 20000>>, <<5, 50>>, <<100, 30000>>}

PreFundamentals == {10, 20, 10000, 20000}

\* one partial of ratio 2 over each fundamental, so that real frequencies
\* fall below, on and above both ends of the default range; every
\* combination of mute flags
PreDistributions ==
    {BuildDistribution(f, <<mp>>, mf, FALSE) :
        f \in PreFundamentals, mp \in BOOLEAN, mf \in BOOLEAN}

InitPre ==
    /\ dist = NewDistribution
    /\ tuning = <<>>
    /\ file = <<>>
    /\ lastOp = "construct"
    /\ \E n \in 1..MaxDists : distributions \in [1..n -> PreDistributions]
    /\ preprocessors = <<NewHearingRangePreprocessor>>
    /\ sumPartialDissonances = TRUE
    /\ ret = <<>>
    /\ aborted = FALSE
    /\ calc = CalcUnused
    /\ args = <<>>
    /\ opt = OptIdle

SetHearingRange ==
    /\ \E r \in HearingRanges :
           /\ preprocessors' = <<setHearingRange(preprocessors[1], r[1], r[2])>>
           /\ args' = r
    /\ lastOp' = "setHearingRange"
    /\ ret' = <<>>
    /\ UNCHANGED <<tuning, file, dist, distributions, sumPartialDissonances, aborted, calc, opt>>

GetHearingRange ==
    /\ ret' = getHearingRange(preprocessors[1])
    /\ lastOp' = "getHearingRange"
    /\ args' = <<>>
    /\ UNCHANGED <<tuning, file, dist, distributions, preprocessors, sumPartialDissonances, aborted,
                   calc, opt>>

\* process on the array it is handed; args keeps the array as it was
Process ==
    /\ distributions' = process(preprocessors[1], distributions)
    /\ args' = <<distributions>>
    /\ lastOp' = "process"
    /\ ret' = <<>>
    /\ UNCHANGED <<tuning, file, dist, preprocessors, sumPartialDissonances, aborted, calc, opt>>

NextPre ==
    \/ SetHearingRange
    \/ GetHearingRange
    \/ Process

SpecPre == InitPre /\ [][NextPre]_vars

\* what process is to leave behind for a band: before and after are the
\* array before and after, inside tells whether a frequency is in the band
MutedByBand(before, after, inside(_)) ==
    /\ Len(after) = Len(before)
    /\ \A i \in 1..Len(before) :
           /\ WithoutFlags(after[i]) = WithoutFlags(before[i])
           /\ after[i].muted = before[i].muted
           /\ after[i].fundamental.muted =
                  (before[i].fundamental.muted \/ ~inside(before[i].fundamental.freq))
           /\ \A p \in 1..Len(before[i].partials) :
                  after[i].partials[p].muted =
                      (\/ before[i].partials[p].muted
                       \/ ~inside(before[i].partials[p].freq
                                      * before[i].fundamental.freq))

\* C18: after setHearingRange(lo, hi), getHearingRange returns the band
\* (lo, hi) and a subsequent run of the preprocessor mutes exactly the
\* fundamentals and partials whose real frequency lies outside the new band.
C18_SetHearingRangeTakesEffect ==
    lastOp = "setHearingRange" =>
        /\ getHearingRange(preprocessors[1]) = args
        /\ MutedByBand(distributions, process(preprocessors[1], distributions),
                       LAMBDA f : args[1] <= f /\ f < args[2])

absolute(n) == IF n < 0 THEN -n ELSE n

RECURSIVE greatestCommonDivisor(_, _)
greatestCommonDivisor(a, b) ==
    IF b = 0 THEN a ELSE greatestCommonDivisor(b, a % b)

\* the fraction n / d in lowest terms with a positive denominator (d # 0)
Fraction(n, d) ==
    LET g == greatestCommonDivisor(absolute(n), absolute(d))
        sign == IF d < 0 THEN -1 ELSE 1
    IN  [num |-> sign * (n \div g), den |-> sign * (d \div g)]

Whole(n) == Fraction(n, 1)

fractionTimes(a, b) == Fraction(a.num * b.num, a.den * b.den)

fractionPlus(a, b) == Fraction(a.num * b.den + b.num * a.den, a.den * b.den)

fractionOver(a, b) == Fraction(a.num * b.den, a.den * b.num)

\* SetharesModel::SetharesModel and VassilakisModel::VassilakisModel
maxDiss == Fraction(24, 100)
plcInterp1 == Fraction(207, 10000)
plcInterp2 == Fraction(1896, 100)
plCurveRate1 == Fraction(-351, 100)
plCurveRate2 == Fraction(-575, 100)
plcFit1 == Whole(5)
plcFit2 == Whole(-5)

jmin(a, b) == IF b < a THEN b ELSE a

\* curveInterp with firstFreq in the place of the lower frequency
curveInterpOfFirst(firstFreq, secondFreq) ==
    fractionOver(maxDiss,
                 fractionPlus(fractionTimes(plcInterp1, Whole(firstFreq)), plcInterp2))

\* curveInterp = maxDiss / (plcInterp1 * jmin (firstFreq, secondFreq) + plcInterp2)
curveInterp(firstFreq, secondFreq) ==
    fractionOver(maxDiss,
                 fractionPlus(fractionTimes(plcInterp1,
                                            Whole(jmin(firstFreq, secondFreq))),
                              plcInterp2))

\* freqDiff = std::abs (firstFreq - secondFreq)
freqDiff(firstFreq, secondFreq) == absolute(firstFreq - secondFreq)

\* plcFit1 * std::exp (plCurveRate1 * curveInterp * freqDiff)
\*     + plcFit2 * std::exp (plCurveRate2 * curveInterp * freqDiff)
curveSum(firstFreq, secondFreq) ==
    LET s == curveInterp(firstFreq, secondFreq)
        d == Whole(freqDiff(firstFreq, secondFreq))
    IN  <<[fit |-> plcFit1, exp |-> fractionTimes(fractionTimes(plCurveRate1, s), d)],
          [fit |-> plcFit2, exp |-> fractionTimes(fractionTimes(plCurveRate2, s), d)]>>

\* SetharesModel::calculateRoughness
setharesRoughness(firstFreq, firstAmp, secondFreq, secondAmp) ==
    [amp |-> jmin(firstAmp, secondAmp), curves |-> curveSum(firstFreq, secondFreq)]

\* VassilakisModel::calculateRoughness
vassilakisRoughness(firstFreq, firstAmp, secondFreq, secondAmp) ==
    [x |-> [powf |-> Whole(firstAmp * secondAmp), to |-> Fraction(1, 10)],
     y |-> [half |-> Fraction(1, 2),
            powf |-> Fraction(2 * jmin(firstAmp, secondAmp), firstAmp + secondAmp),
            to |-> Fraction(311, 100)],
     z |-> curveSum(firstFreq, secondFreq)]

(***************************************************************************)
(* SpecRough: calculateRoughness of either model on a pair of partials,    *)
(* evaluated in both orders.                                               *)
(***************************************************************************)
RoughFrequencies == {100, 110, 440}

RoughAmplitudes == {1, 2, 3}

InitRough ==
    /\ dist = NewDistribution
    /\ tuning = <<>>
    /\ file = <<>>
    /\ lastOp = "construct"
    /\ distributions = <<>>
    /\ preprocessors = <<>>
    /\ sumPartialDissonances = TRUE
    /\ ret = <<>>
    /\ aborted = FALSE
    /\ calc = CalcUnused
    /\ args \in RoughFrequencies \X RoughAmplitudes \X RoughFrequencies \X RoughAmplitudes
    /\ opt = OptIdle

SetharesCalculateRoughness ==
    /\ ret' = <<setharesRoughness(args[1], args[2], args[3], args[4]),
                setharesRoughness(args[3], args[4], args[1], args[2])>>
    /\ lastOp' = "Sethares"
    /\ UNCHANGED <<tuning, file, dist, distributions, preprocessors, sumPartialDissonances, aborted,
                   calc, args, opt>>

VassilakisCalculateRoughness ==
    /\ ret' = <<vassilakisRoughness(args[1], args[2], args[3], args[4]),
                vassilakisRoughness(args[3], args[4], args[1], args[2])>>
    /\ lastOp' = "Vassilakis"
    /\ UNCHANGED <<tuning, file, dist, distributions, preprocessors, sumPartialDissonances, aborted,
                   calc, args, opt>>

NextRough ==
    \/ SetharesCalculateRoughness
    \/ VassilakisCalculateRoughness

SpecRough == InitRough /\ [][NextRough]_vars

\* C20: for both the Sethares and the Vassilakis model, calculateRoughness
\* is symmetric in its two (frequency, amplitude) arguments:
\* roughness(f1, a1, f2, a2) = roughness(f2, a2, f1, a1) for positive
\* f1, a1, f2, a2.
C20_RoughnessSymmetric ==
    lastOp \in {"Sethares", "Vassilakis"} => ret[1] = ret[2]

\* the Vassilakis model has been evaluated on two partials that differ in
\* frequency and in amplitude, the higher one being the softer
C20_Witness ==
    /\ lastOp = "Vassilakis"
    /\ args[1] > args[3]
    /\ args[2] < args[4]
    /\ ret[1] = vassilakisRoughness(args[1], args[2], args[3], args[4])
    /\ ret[1].z # vassilakisRoughness(args[1], args[2], args[1], args[2]).z

(***************************************************************************)
(* DissonanceCalc: chords (DissonanceCalc.cpp, "Calculations of multiple   *)
(* specific intervals").                                                   *)
(*                                                                         *)
(* chords is an Array of Arrays of FreqAmpPair.  Array::operator[] returns *)
(* its element by value, so chords[chordIndex] is a copy of the row, and   *)
(* addChord adds an empty row.  getReference on an index the row does not  *)
(* have is undefined: the write lands outside the array or the program     *)
(* stops (OobOutcomes).                                                    *)
(***************************************************************************)
MaxChords == 2

\* a FreqAmpPair as Array::operator[] returns it for an index out of range
FreqAmpPairDefault == [freq |-> 0, amp |-> 0]

\* DissonanceCalc::addChord
addChord(c) == [c EXCEPT !.chords = arrayResize(@, Len(@) + 1, <<>>)]

\* chords[chordIndex]: a copy of the row
chordRow(c, chordIndex) == arrayAt(c.chords, chordIndex, <<>>)

\* DissonanceCalc::setFreqInChord: the pair written is the copy's
setFreqInChord(c, chordIndex, distributionIndex, newFreq) ==
    LET row == chordRow(c, chordIndex)
        written == IF distributionIndex \in 1..Len(row)
                   THEN [row EXCEPT ![distributionIndex].freq = newFreq] ELSE row
    IN  [calc |-> c, oob |-> distributionIndex \notin 1..Len(row)]

\* DissonanceCalc::setAmpInChord: the pair written is the copy's
setAmpInChord(c, chordIndex, distributionIndex, newAmp) ==
    LET row == chordRow(c, chordIndex)
        written == IF distributionIndex \in 1..Len(row)
                   THEN [row EXCEPT ![distributionIndex].amp = newAmp] ELSE row
    IN  [calc |-> c, oob |-> distributionIndex \notin 1..Len(row)]

chordPair(c, chordIndex, distributionIndex) ==
    arrayAt(chordRow(c, chordIndex), distributionIndex, FreqAmpPairDefault)

\* DissonanceCalc::getFreqInChord
getFreqInChord(c, chordIndex, distributionIndex) ==
    chordPair(c, chordIndex, distributionIndex).freq

\* DissonanceCalc::getAmpInChord
getAmpInChord(c, chordIndex, distributionIndex) ==
    chordPair(c, chordIndex, distributionIndex).amp

\* the working copy of one pass of calculateDissonances, before the
\* preprocessors
chordDistributions(c, ds, i) ==
    [j \in 1..Len(ds) |->
        setFundamental(addCopiesOf(ds)[j], chordPair(c, i, j).freq,
                       chordPair(c, i, j).amp)]

\* one pass of the loop of calculateDissonances
RECURSIVE chordPasses(_, _, _, _)
chordPasses(c, ds, pres, i) ==
    IF i > Len(c.chords) THEN c
    ELSE chordPasses(
             [c EXCEPT !.dissonanceValues =
                  arraySet(@, i,
                      modelCalculateDissonance(
                          processAll(pres, chordDistributions(c, ds, i)),
                          FALSE).dissonance)],
             ds, pres, i + 1)

\* DissonanceCalc::calculateDissonances
calculateDissonances(c, ds, pres) == chordPasses(c, ds, pres, 1)

\* DissonanceCalc::getChordDissonance
getChordDissonance(c, chordNum) == arrayAt(c.dissonanceValues, chordNum, <<>>)

(***************************************************************************)
(* SpecChord: chords added, filled in and evaluated.  args.requested keeps *)
(* what the caller has passed to setFreqInChord and setAmpInChord so far   *)
(* (0 where nothing was passed yet), args.last the last call's arguments.  *)
(***************************************************************************)
\* the frequency and amplitude the caller passes for distribution d of chord c
ChordFreq(c, d) == 110 * (2 * c + d)

ChordAmp(c, d) == c + d

InitChord ==
    /\ dist = NewDistribution
    /\ tuning = <<>>
    /\ file = <<>>
    /\ lastOp = "configure"
    /\ \E n \in 1..MaxDists :
           distributions = [i \in 1..n |-> PlainDistribution(CalcFundFreq(i), 1)]
    /\ preprocessors \in {<<>>, <<NewHearingRangePreprocessor>>}
    /\ sumPartialDissonances = TRUE
    /\ ret = <<>>
    /\ aborted = FALSE
    /\ calc = setModel(NewCalc(0, Num(0)))
    /\ args = [last |-> <<>>, requested |-> <<>>]
    /\ opt = OptIdle

AddChord ==
    /\ ~aborted
    /\ Len(calc.chords) < MaxChords
    /\ calc' = addChord(calc)
    /\ args' = [last |-> <<>>,
                requested |-> Append(args.requested,
                                     [d \in 1..Len(distributions) |->
                                         FreqAmpPairDefault])]
    /\ lastOp' = "addChord"
    /\ ret' = <<>>
    /\ UNCHANGED <<tuning, file, dist, distributions, preprocessors, sumPartialDissonances, aborted,
                   opt>>

\* a call that writes into a chord: r is what the operation gives
WriteChord(op, r, last, requested) ==
    /\ ~aborted
    /\ calc' = r.calc
    /\ args' = [last |-> last, requested |-> requested]
    /\ ret' = <<>>
    /\ IF r.oob
       THEN \E o \in OobOutcomes :
                /\ aborted' = (o = "stopped")
                /\ lastOp' = IF o = "stopped" THEN "stopped" ELSE op
       ELSE aborted' = FALSE /\ lastOp' = op
    /\ UNCHANGED <<tuning, file, dist, distributions, preprocessors, sumPartialDissonances, opt>>

SetFreqInChord ==
    \E c \in 1..Len(calc.chords), d \in 1..Len(distributions) :
        WriteChord("setFreqInChord", setFreqInChord(calc, c, d, ChordFreq(c, d)),
                   <<c, d, ChordFreq(c, d)>>,
                   [args.requested EXCEPT ![c][d].freq = ChordFreq(c, d)])

SetAmpInChord ==
    \E c \in 1..Len(calc.chords), d \in 1..Len(distributions) :
        WriteChord("setAmpInChord", setAmpInChord(calc, c, d, ChordAmp(c, d)),
                   <<c, d, ChordAmp(c, d)>>,
                   [args.requested EXCEPT ![c][d].amp = ChordAmp(c, d)])

\* a call that reads: v is what it returns
ReadChord(op, v, last) ==
    /\ ~aborted
    /\ ret' = <<v>>
    /\ args' = [args EXCEPT !.last = last]
    /\ lastOp' = op
    /\ UNCHANGED <<tuning, file, dist, distributions, preprocessors, sumPartialDissonances, aborted,
                   calc, opt>>

GetFreqInChord ==
    \E c \in 1..Len(calc.chords), d \in 1..Len(distributions) :
        ReadChord("getFreqInChord", getFreqInChord(calc, c, d), <<c, d>>)

GetAmpInChord ==
    \E c \in 1..Len(calc.chords), d \in 1..Len(distributions) :
        ReadChord("getAmpInChord", getAmpInChord(calc, c, d), <<c, d>>)

CalculateDissonances ==
    /\ ~aborted
    /\ calc.model
    /\ calc' = calculateDissonances(calc, distributions, preprocessors)
    /\ distributions' = distributions
    /\ args' = [args EXCEPT !.last = <<>>]
    /\ lastOp' = "calculateDissonances"
    /\ ret' = <<>>
    /\ UNCHANGED <<tuning, file, dist, preprocessors, sumPartialDissonances, aborted, opt>>

GetChordDissonance ==
    \E i \in 1..Len(calc.chords) :
        ReadChord("getChordDissonance", getChordDissonance(calc, i), <<i>>)

NextChord ==
    \/ AddChord
    \/ SetFreqInChord
    \/ SetAmpInChord
    \/ GetFreqInChord
    \/ GetAmpInChord
    \/ CalculateDissonances
    \/ GetChordDissonance

SpecChord == InitChord /\ [][NextChord]_vars

\* the caller has passed a frequency and an amplitude for every distribution
\* of chord i
ChordFilledIn(i) ==
    \A j \in 1..Len(distributions) :
        args.requested[i][j].freq # 0 /\ args.requested[i][j].amp # 0

\* the non-accumulating evaluation of a fresh working copy whose fundamentals
\* are those passed for chord i
ChordEvaluation(i) ==
    calculateDissonance(
        [j \in 1..Len(distributions) |->
            setFundamental(distributions[j], args.requested[i][j].freq,
                           args.requested[i][j].amp)],
        preprocessors, FALSE).dissonance

\* C21: calculateDissonances stores, for every chord index i, the result of
\* a non-accumulating evaluation of a fresh working copy whose j-th
\* distribution's fundamental is overwritten with chord i's (freq, amp),
\* retrievable as getChordDissonance(i) at the same index; the canonical
\* distributions are unchanged by the batch.
C21_ChordDissonancesStored ==
    [][lastOp' = "calculateDissonances" =>
          /\ \A i \in 1..Len(calc.chords) :
                 ChordFilledIn(i) => getChordDissonance(calc', i) = ChordEvaluation(i)
          /\ distributions' = distributions]_vars

\* C22: for a chord created with addChord and an index d of a configured
\* distribution, setFreqInChord(c, d, f) followed by getFreqInChord(c, d)
\* returns f and setAmpInChord(c, d, a) followed by getAmpInChord(c, d)
\* returns a; setting one entry changes no other chord entry and no other
\* chord.
C22_ChordEntriesRoundTrip ==
    [][/\ lastOp' = "setFreqInChord" =>
              getFreqInChord(calc', args'.last[1], args'.last[2]) = args'.last[3]
       /\ lastOp' = "setAmpInChord" =>
              getAmpInChord(calc', args'.last[1], args'.last[2]) = args'.last[3]
       /\ lastOp' \in {"setFreqInChord", "setAmpInChord"} =>
              \A c \in 1..Len(calc.chords), d \in 1..Len(distributions) :
                  /\ <<c, d>> # <<args'.last[1], args'.last[2]>> =>
                         chordPair(calc', c, d) = chordPair(calc, c, d)
                  /\ lastOp' = "setFreqInChord" =>
                         getAmpInChord(calc', c, d) = getAmpInChord(calc, c, d)
                  /\ lastOp' = "setAmpInChord" =>
                         getFreqInChord(calc', c, d) = getFreqInChord(calc, c, d)]_vars

(***************************************************************************)
(* Further claims about the sweep configuration, checked under SpecConfig  *)
(***************************************************************************)
RangeUnsetOrValid(c) == rangeIsEmpty(c.frequencyRange) \/ RangeValid(c)

\* C23: setRange(start, end) with start <= 0 or end <= start leaves the
\* stored frequency range unchanged, and setNumSteps(n) with a non-positive
\* n leaves numSteps and the map size unchanged; so in every reachable state
\* the stored range is either still unset (empty) or has 0 < start < end.
C23_InvalidRangeAndStepsRejected ==
    [][/\ (lastOp' = "setRange" /\ (args'[1] <= 0 \/ args'[2] <= args'[1])) =>
              calc'.frequencyRange = calc.frequencyRange
       /\ (lastOp' = "setNumSteps" /\ args'[1] <= 0) =>
              /\ calc'.numSteps = calc.numSteps
              /\ Len(calc'.map2D) = Len(calc.map2D)
              /\ Len(calc'.map3D) = Len(calc.map3D)
       /\ RangeUnsetOrValid(calc)
       /\ RangeUnsetOrValid(calc')]_vars

\* a setNumSteps (0) that was refused on a calculator with a range and a map
C23_Witness ==
    /\ lastOp = "setNumSteps"
    /\ args = <<0>>
    /\ calc.frequencyRange = [start |-> 4, end |-> 1024]
    /\ calc.numSteps = 4
    /\ Len(calc.map2D) = 4
    /\ setRange(calc, 64, 4).frequencyRange = calc.frequencyRange
    /\ setRange(calc, 0, 64).frequencyRange = calc.frequencyRange

(***************************************************************************)
(* A further claim about one OvertoneDistribution, checked under Spec      *)
(***************************************************************************)
\* C24: an OvertoneDistribution's minInterval is at least 1 in every
\* reachable state: setMinInterval(m) with m < 1 is rejected and leaves
\* minInterval unchanged.
C24_MinIntervalAtLeastOne == dist.minInterval >= 1

(***************************************************************************)
(* SpecAxes: the swept-axis indices against the list of distributions.     *)
(*                                                                         *)
(* Indices are 1-based here: the code's index i is i + 1.  distributions   *)
(* is an OwnedArray, whose operator[] returns nullptr for an index out of  *)
(* range; calling setFundamentalFreq through it is undefined (OobOutcomes).*)
(* Accumulation is switched off, so evaluations write no running totals.   *)
(***************************************************************************)
\* OwnedArray::remove
removeOvertoneDistribution(ds, distributionNum) == arrayRemove(ds, distributionNum)

\* OwnedArray::clear
clearOvertoneDistributions(ds) == <<>>

\* the indices calculateDissonanceMap dereferences
sweptAxes(c) ==
    IF c.dimensionality = 2 THEN <<c.varDist>>
    ELSE IF c.dimensionality = 3 THEN <<c.xDist, c.yDist>>
    ELSE <<>>

AxisInputs == 0..(MaxDists + 1)

InitAxes ==
    /\ dist = NewDistribution
    /\ tuning = <<>>
    /\ file = <<>>
    /\ lastOp = "configure"
    /\ distributions = [i \in 1..MaxDists |-> PlainDistribution(CalcFundFreq(i), 1)]
    /\ preprocessors = <<>>
    /\ sumPartialDissonances = FALSE
    /\ ret = <<>>
    /\ aborted = FALSE
    /\ \E d \in {2, 3} :
           calc = setNumDimensions(ConfiguredCalc(<<4, 64>>, 2, FALSE, 1), d)
    /\ args = <<>>
    /\ opt = OptIdle

Set2dVariableDistribution ==
    \E i \in AxisInputs :
        ConfigureWith("set2dVariableDistribution",
                      set2dVariableDistribution(calc, i), <<i>>)

SetXVariableDistribution ==
    \E i \in AxisInputs :
        ConfigureWith("setXVariableDistribution", setXVariableDistribution(calc, i), <<i>>)

SetYVariableDistribution ==
    \E i \in AxisInputs :
        ConfigureWith("setYVariableDistribution", setYVariableDistribution(calc, i), <<i>>)

\* a call that changes the list of distributions only
ChangeDistributions(op, ds) ==
    /\ ~aborted
    /\ distributions' = ds
    /\ lastOp' = op
    /\ ret' = <<>>
    /\ args' = <<>>
    /\ UNCHANGED <<tuning, file, dist, preprocessors, sumPartialDissonances, aborted, calc, opt>>

AddOvertoneDistribution ==
    /\ Len(distributions) < MaxDists
    /\ ChangeDistributions("addOvertoneDistribution",
           Append(distributions, PlainDistribution(CalcFundFreq(1), 1)))

RemoveOvertoneDistribution ==
    \E i \in 1..Len(distributions) :
        ChangeDistributions("removeOvertoneDistribution",
                            removeOvertoneDistribution(distributions, i))

ClearOvertoneDistributions ==
    ChangeDistributions("clearOvertoneDistributions",
                        clearOvertoneDistributions(distributions))

\* an operation that dereferences the indices axes: it does what run gives
\* when all of them are in range; args keeps the indices
Dereference(op, axes, run) ==
    /\ ~aborted
    /\ calc.model
    /\ args' = axes
    /\ lastOp' = op
    /\ IF \A k \in 1..Len(axes) : axes[k] \in 1..Len(distributions)
       THEN /\ calc' = run.calc
            /\ distributions' = run.ds
            /\ ret' = run.ret
            /\ aborted' = FALSE
       ELSE /\ \E o \in OobOutcomes : aborted' = (o = "stopped")
            /\ ret' = <<>>
            /\ UNCHANGED <<calc, distributions>>
    /\ UNCHANGED <<tuning, file, dist, preprocessors, sumPartialDissonances, opt>>

AxesCalculateDissonanceMap ==
    Dereference("calculateDissonanceMap", sweptAxes(calc),
        LET r == calculateDissonanceMap(calc, distributions, preprocessors)
        IN  [calc |-> r.calc, ds |-> r.ds, ret |-> r.computed])

\* getDissonanceAtFreq at the start of the range
AxesGetDissonanceAtFreq ==
    \E freq \in {calc.frequencyRange.start} :
        Dereference("getDissonanceAtFreq", <<calc.varDist>>,
            LET r == getDissonanceAtFreq(calc, distributions, preprocessors,
                                         sumPartialDissonances, freq)
            IN  [calc |-> calc, ds |-> r.ds, ret |-> r.dissonance])

\* the objective at the start of the range
AxesOpt2D ==
    \E x \in {calc.frequencyRange.start} :
        Dereference("opt2D", <<calc.varDist>>,
            LET r == opt2D(calc, distributions, preprocessors, sumPartialDissonances, x)
            IN  [calc |-> calc, ds |-> distributions, ret |-> r.dissonance])

NextAxes ==
    \/ Set2dVariableDistribution
    \/ SetXVariableDistribution
    \/ SetYVariableDistribution
    \/ AddOvertoneDistribution
    \/ RemoveOvertoneDistribution
    \/ ClearOvertoneDistributions
    \/ AxesCalculateDissonanceMap
    \/ AxesGetDissonanceAtFreq
    \/ AxesOpt2D

SpecAxes == InitAxes /\ [][NextAxes]_vars

\* C25: swept-axis indices are always in bounds: set2dVariableDistribution,
\* setXVariableDistribution and setYVariableDistribution with an index
\* outside the configured distributions leave the stored index unchanged,
\* and no stored swept-axis index is out of bounds when a sweep,
\* getDissonanceAtFreq or the extremum search's objective dereferences it.
C25_AxisIndicesInBounds ==
    [][/\ (/\ lastOp' \in {"set2dVariableDistribution", "setXVariableDistribution",
                           "setYVariableDistribution"}
           /\ args'[1] \notin 1..Len(distributions))
          => <<calc'.varDist, calc'.xDist, calc'.yDist>>
                 = <<calc.varDist, calc.xDist, calc.yDist>>
       /\ lastOp' \in {"calculateDissonanceMap", "getDissonanceAtFreq", "opt2D"}
          => \A k \in 1..Len(args') : args'[k] \in 1..Len(distributions)]_vars

(***************************************************************************)
(* A further claim about calculateDissonance, checked under SpecCalc.      *)
(* A running total is the sequence of the terms whose half was added to    *)
(* it, so the totals sum to the returned dissonance exactly when every     *)
(* returned term is in the totals twice and nothing else is.               *)
(***************************************************************************)
\* number of halves of term t in all running totals
HalvesInTotals(ds, t) ==
    LET perDistribution ==
            [i \in 1..Len(ds) |->
                Count(ds[i].fundamental.dissonance, t)
                    + Cardinality({<<p, k>> \in (1..Len(ds[i].partials))
                                                 \X (1..(2 * Len(ret))) :
                                      /\ k <= Len(ds[i].partials[p].dissonance)
                                      /\ ds[i].partials[p].dissonance[k] = t})]
        total[i \in 0..Len(ds)] ==
            IF i = 0 THEN 0 ELSE total[i - 1] + perDistribution[i]
    IN  total[Len(ds)]

\* every half in a running total is a half of a returned term
TotalsOfReturnedTermsOnly(ds) ==
    \A i \in 1..Len(ds) :
        /\ \A k \in 1..Len(ds[i].fundamental.dissonance) :
               \E n \in 1..Len(ret) : ds[i].fundamental.dissonance[k] = ret[n]
        /\ \A p \in 1..Len(ds[i].partials) :
               \A k \in 1..Len(ds[i].partials[p].dissonance) :
                   \E n \in 1..Len(ret) : ds[i].partials[p].dissonance[k] = ret[n]

\* C26: after a single evaluation with accumulation enabled the canonical
\* running totals reflect that evaluation only and account for all of it:
\* the fundamentals' totals and the partials' totals of all canonical
\* distributions add up to the returned dissonance, whatever totals earlier
\* evaluations left.
C26_TotalsAddUpToResult ==
    (Evaluated /\ sumPartialDissonances) =>
        /\ TotalsOfReturnedTermsOnly(distributions)
        /\ \A n \in 1..Len(ret) : HalvesInTotals(distributions, ret[n]) = 2

(***************************************************************************)
(* A further claim about optimize2D, checked under SpecOpt                 *)
(***************************************************************************)
StrictlyAscending(list) == \A k \in 1..(Len(list) - 1) : list[k] < list[k + 1]

\* C27: the minima and maxima lists optimize2D produces are sorted ascending
\* by frequency and hold no frequency twice; a search in one direction
\* clears and rebuilds only that direction's list and leaves the other
\* direction's list and all canonical distributions unchanged.
C27_ListsSortedAndSeparate ==
    [][/\ StrictlyAscending(calc'.minima)
       /\ StrictlyAscending(calc'.maxima)
       /\ distributions' = distributions
       /\ lastOp' = "optimize2D begin" =>
              /\ optimizedValuesOf(calc', args'[1]) = <<>>
              /\ optimizedValuesOf(calc', ~args'[1]) = optimizedValuesOf(calc, ~args'[1])
       /\ lastOp' = "optimize2D start" =>
              /\ optimizedValuesOf(calc', ~opt.minimize)
                     = optimizedValuesOf(calc, ~opt.minimize)
              /\ \A k \in 1..Len(optimizedValuesOf(calc', opt.minimize)) :
                     \/ optimizedValuesOf(calc', opt.minimize)[k] = args'[1]
                     \/ arrayContains(optimizedValuesOf(calc, opt.minimize),
                                      optimizedValuesOf(calc', opt.minimize)[k])
       /\ lastOp' = "optimize2D" => calc' = calc]_vars

\* a search for minima has ended with two minima, the later result below
\* the earlier one, beside the maxima an earlier search left
C27_Witness ==
    /\ lastOp = "optimize2D"
    /\ args = <<TRUE>>
    /\ calc.minima = <<2000, 2003>>
    /\ ret = <<2, 1>>
    /\ calc.maxima = <<2001>>

(***************************************************************************)
(* What calculateDissonanceMap leaves in the canonical distributions,      *)
(* checked under SpecMap                                                   *)
(***************************************************************************)
\* a distribution but for its fundamental frequency
ButFundamentalFreq(d) == [d EXCEPT !.fundamental.freq = 0]

\* some running total of the distributions is not zero
SomeTotal(ds) ==
    \E i \in 1..Len(ds) :
        \/ ds[i].fundamental.dissonance # <<>>
        \/ \E j \in 1..Len(ds[i].partials) : ds[i].partials[j].dissonance # <<>>

\* C28: calculateDissonanceMap changes no canonical distribution state but
\* the fundamental frequency of the swept distribution(s): ratios,
\* amplitudes, mute flags, running totals and the fundamentals of the
\* distributions not swept are unchanged, and the swept fundamental is not
\* restored: in 2D it is left at start advanced by numSteps steps; in 3D with
\* distinct axes the y-axis distribution is left at start and the x-axis
\* distribution at start advanced by numSteps steps.
C28_SweepLeavesOnlyFundamentals ==
    [][lastOp' = "calculateDissonanceMap" =>
          /\ Len(distributions') = Len(distributions)
          /\ \A i \in 1..Len(distributions) :
                 /\ ButFundamentalFreq(distributions'[i]) = ButFundamentalFreq(distributions[i])
                 /\ (\A k \in 1..Len(sweptAxes(calc)) : sweptAxes(calc)[k] # i) =>
                        distributions'[i] = distributions[i]
          /\ calc.dimensionality = 2 =>
                 distributions'[calc.varDist].fundamental.freq
                     = StepFrequency(calc, calc.numSteps)
          /\ (calc.dimensionality = 3 /\ calc.xDist # calc.yDist) =>
                 /\ distributions'[calc.yDist].fundamental.freq = calc.frequencyRange.start
                 /\ distributions'[calc.xDist].fundamental.freq
                        = StepFrequency(calc, calc.numSteps)]_vars

\* a 3D sweep over distributions that hold running totals has left the
\* x-axis distribution at the end of the range and the y-axis distribution at
\* its start
C28_Witness ==
    /\ Swept3D
    /\ calc.xDist # calc.yDist
    /\ SomeTotal(distributions)
    /\ calc.logSteps
    /\ distributions[calc.xDist].fundamental.freq = 1024
    /\ distributions[calc.yDist].fundamental.freq = 4

(***************************************************************************)
(* TuningSystem (src/TuningSystem.cpp).  Ratios are whole numbers; the     *)
(* quotient of two of them is a Fraction                                   *)
(***************************************************************************)
MaxIntervals == 2       \* intervals held by the tuning system

\* TuningSystem::TuningSystem
NewTuningSystem ==
    [intervals |-> <<>>, name |-> "untitled", referenceFrequency |-> 0,
     repeatRatio |-> 0, minInterval |-> 1]

fractionLess(a, b) == a.num * b.den < b.num * a.den

\* Range<float>() and Range::setStart, Range::contains on fractions
fractionRangeSetStart(r, newStart) ==
    [start |-> newStart, end |-> IF fractionLess(r.end, newStart) THEN newStart ELSE r.end]

fractionRangeContains(r, x) == ~fractionLess(x, r.start) /\ fractionLess(x, r.end)

\* TuningSystem::numNotes
numNotes(t) == Len(t.intervals) + 1

\* TuningSystem::alreadyContains
TuningSystem_alreadyContains(t, freqToCheck) ==
    \E i \in 1..Len(t.intervals) : t.intervals[i] = freqToCheck

\* the range tooCloseToOther tests with: setStart is called twice
\* (lines 170-171), setEnd never
TuningSystem_tooClose(t) ==
    fractionRangeSetStart(
        fractionRangeSetStart([start |-> Whole(0), end |-> Whole(0)],
                              Fraction(1, t.minInterval)),
        Whole(t.minInterval))

\* TuningSystem::tooCloseToOther
TuningSystem_tooCloseToOther(t, freqToCheck) ==
    \/ fractionRangeContains(TuningSystem_tooClose(t), Whole(freqToCheck))
    \/ \E i \in 1..Len(t.intervals) :
           fractionRangeContains(TuningSystem_tooClose(t),
                                 Fraction(freqToCheck, t.intervals[i]))

\* the test addInterval and setFreqRatio make
TuningSystem_accepts(t, newFrequencyRatio) ==
    /\ newFrequencyRatio > 1
    /\ ~TuningSystem_alreadyContains(t, newFrequencyRatio)
    /\ ~TuningSystem_tooCloseToOther(t, newFrequencyRatio)

\* TuningSystem::addInterval
addInterval(t, newFrequencyRatio) ==
    IF TuningSystem_accepts(t, newFrequencyRatio)
    THEN [t EXCEPT !.intervals = Append(@, newFrequencyRatio)]
    ELSE t

\* TuningSystem::setFreqRatio: getReference outside the array is undefined
TuningSystem_setFreqRatio(t, intervalNum, newFrequencyRatio) ==
    IF TuningSystem_accepts(t, newFrequencyRatio)
    THEN IF intervalNum \in 1..Len(t.intervals)
         THEN [tuning |-> [t EXCEPT !.intervals[intervalNum] = newFrequencyRatio],
               oob |-> FALSE]
         ELSE [tuning |-> t, oob |-> TRUE]
    ELSE [tuning |-> t, oob |-> FALSE]

\* TuningSystem::getFreqRatio: Array::operator[] gives 0 outside the array
TuningSystem_getFreqRatio(t, intervalNum) == arrayAt(t.intervals, intervalNum, 0)

\* TuningSystem::removeInterval
removeInterval(t, intervalNum) == [t EXCEPT !.intervals = arrayRemove(@, intervalNum)]

\* TuningSystem::setReferenceFrequency
setReferenceFrequency(t, newReferenceFreq) ==
    [t EXCEPT !.referenceFrequency = newReferenceFreq]

\* TuningSystem::setRepeatRatio: Array::getLast gives 0 on an empty array
setRepeatRatio(t, newRepeatRatio) ==
    IF /\ newRepeatRatio > arrayAt(t.intervals, Len(t.intervals), 0)
       /\ ~TuningSystem_alreadyContains(t, newRepeatRatio)
       /\ ~TuningSystem_tooCloseToOther(t, newRepeatRatio)
    THEN [t EXCEPT !.repeatRatio = newRepeatRatio]
    ELSE t

\* TuningSystem::setMinInterval
TuningSystem_setMinInterval(t, newMinInterval) ==
    IF newMinInterval >= 1 THEN [t EXCEPT !.minInterval = newMinInterval] ELSE t

(***************************************************************************)
(* SpecTuning: one TuningSystem from its constructor on                    *)
(***************************************************************************)
TuningRatios == {1, 2, 3, 4}
TuningMinIntervals == {0, 1, 2}
TuningRepeatRatios == {1, 3, 5}
TuningReferenceFrequencies == {0, 440}

InitTuning ==
    /\ dist = NewDistribution
    /\ CalcIdle
    /\ lastOp = "construct"
    /\ tuning = NewTuningSystem
    /\ file = <<>>

\* a call on the tuning system with arguments a
TuningCall(op, t, a) ==
    /\ ~aborted
    /\ tuning' = t
    /\ lastOp' = op
    /\ args' = a
    /\ ret' = <<>>
    /\ UNCHANGED <<file, dist, distributions, preprocessors, sumPartialDissonances,
                   aborted, calc, opt>>

TuningSetMinInterval ==
    \E m \in TuningMinIntervals :
        TuningCall("setMinInterval", TuningSystem_setMinInterval(tuning, m), <<m>>)

TuningAddInterval ==
    /\ Len(tuning.intervals) < MaxIntervals
    /\ \E r \in TuningRatios : TuningCall("addInterval", addInterval(tuning, r), <<r>>)

TuningSetFreqRatio ==
    /\ ~aborted
    /\ \E n \in 1..(Len(tuning.intervals) + 1), r \in TuningRatios :
           \E s \in {TuningSystem_setFreqRatio(tuning, n, r)} :
               /\ args' = <<n, r>>
               /\ \E o \in IF s.oob THEN OobOutcomes ELSE {"none"} :
                      IF o = "stopped"
                      THEN /\ aborted' = TRUE
                           /\ lastOp' = "setFreqRatio stopped"
                           /\ tuning' = tuning
                      ELSE /\ aborted' = FALSE
                           /\ lastOp' = "setFreqRatio"
                           /\ tuning' = s.tuning
    /\ ret' = <<>>
    /\ UNCHANGED <<file, dist, distributions, preprocessors, sumPartialDissonances,
                   calc, opt>>

TuningRemoveInterval ==
    \E n \in 1..Len(tuning.intervals) :
        TuningCall("removeInterval", removeInterval(tuning, n), <<n>>)

TuningSetRepeatRatio ==
    \E r \in TuningRepeatRatios :
        TuningCall("setRepeatRatio", setRepeatRatio(tuning, r), <<r>>)

TuningSetReferenceFrequency ==
    \E f \in TuningReferenceFrequencies :
        TuningCall("setReferenceFrequency", setReferenceFrequency(tuning, f), <<f>>)

NextTuning ==
    \/ TuningSetMinInterval
    \/ TuningAddInterval
    \/ TuningSetFreqRatio
    \/ TuningRemoveInterval
    \/ TuningSetRepeatRatio
    \/ TuningSetReferenceFrequency

SpecTuning == InitTuning /\ [][NextTuning]_vars

\* the quotient a / b lies within [1 / minInterval, minInterval]
CloserThanMinInterval(t, a, b) ==
    /\ ~fractionLess(Fraction(a, b), Fraction(1, t.minInterval))
    /\ ~fractionLess(Whole(t.minInterval), Fraction(a, b))

\* what the tuning system is to keep
TuningWellFormed(t) ==
    /\ \A i \in 1..Len(t.intervals) : t.intervals[i] > 1
    /\ \A i, j \in 1..Len(t.intervals) :
           i # j => /\ t.intervals[i] # t.intervals[j]
                    /\ ~CloserThanMinInterval(t, t.intervals[i], t.intervals[j])
    /\ t.repeatRatio # 0 =>
           \A i \in 1..Len(t.intervals) : t.repeatRatio > t.intervals[i]

\* C29: in every reachable state of a TuningSystem every stored interval
\* ratio is greater than 1, no two stored intervals are equal or closer than
\* minInterval (quotient within [1 / minInterval, minInterval]) and a
\* non-zero repeat ratio is greater than every stored interval; an
\* addInterval or setFreqRatio that would violate this leaves the interval
\* list unchanged.
C29_TuningSystemWellFormed ==
    [][/\ TuningWellFormed(tuning')
       /\ (lastOp' = "addInterval"
             /\ ~TuningWellFormed([tuning EXCEPT !.intervals = Append(@, args'[1])])) =>
              tuning'.intervals = tuning.intervals
       /\ (lastOp' = "setFreqRatio" /\ args'[1] \in 1..Len(tuning.intervals)
             /\ ~TuningWellFormed([tuning EXCEPT !.intervals[args'[1]] = args'[2]])) =>
              tuning'.intervals = tuning.intervals]_vars

(***************************************************************************)
(* FileIO::saveToFile (const TuningSystem&, bool) (src/FileIO.cpp).  The   *)
(* path is set and can be written: File::create, appendData and            *)
(* replaceWithData succeed                                                 *)
(***************************************************************************)
\* FileIO::FileIO with a path no file exists at: an invalid ValueTree
NewFileIO == [exists |-> FALSE, data |-> <<>>, tree |-> <<>>]

\* the notes array after the first n rounds of the loop at lines 142-145:
\* getFreqRatio (i) for i from 0, the last round reading past the intervals
RECURSIVE notesOf(_, _)
notesOf(t, n) ==
    IF n = 0 THEN <<>>
    ELSE addUsingDefaultSort(notesOf(t, n - 1), TuningSystem_getFreqRatio(t, n))

\* the ValueTree of lines 138-151
tuningTree(t) ==
    [type |-> "Tuning", Notes |-> notesOf(t, numNotes(t)), Name |-> t.name,
     MinInterval |-> t.minInterval, ReferenceFreq |-> t.referenceFrequency,
     RepeatRatio |-> t.repeatRatio]

\* FileIO::saveToFile (const TuningSystem&, bool)
saveToFile(f, t, overwrite) ==
    IF f.exists /\ overwrite = FALSE THEN f
    ELSE IF \/ numNotes(t) <= 1
            \/ t.referenceFrequency # 0
            \/ t.repeatRatio # 0
    THEN f
    ELSE [exists |-> TRUE, data |-> tuningTree(t), tree |-> tuningTree(t)]

\* File::deleteFile on the path, by the program or from outside it
deleteFile(f) == [f EXCEPT !.exists = FALSE, !.data = <<>>]

(***************************************************************************)
(* SpecFile: a TuningSystem and a FileIO that saves it                     *)
(***************************************************************************)
InitFile ==
    /\ dist = NewDistribution
    /\ CalcIdle
    /\ lastOp = "construct"
    /\ tuning = NewTuningSystem
    /\ file = NewFileIO

SaveToFile ==
    /\ ~aborted
    /\ \E overwrite \in BOOLEAN :
           /\ file' = saveToFile(file, tuning, overwrite)
           /\ args' = <<overwrite>>
    /\ lastOp' = "saveToFile"
    /\ ret' = <<>>
    /\ UNCHANGED <<tuning, dist, distributions, preprocessors, sumPartialDissonances,
                   aborted, calc, opt>>

DeleteFile ==
    /\ ~aborted
    /\ file.exists
    /\ file' = deleteFile(file)
    /\ lastOp' = "deleteFile"
    /\ args' = <<>>
    /\ ret' = <<>>
    /\ UNCHANGED <<tuning, dist, distributions, preprocessors, sumPartialDissonances,
                   aborted, calc, opt>>

NextFile ==
    \/ TuningSetMinInterval
    \/ TuningAddInterval
    \/ TuningSetFreqRatio
    \/ TuningRemoveInterval
    \/ TuningSetRepeatRatio
    \/ TuningSetReferenceFrequency
    \/ SaveToFile
    \/ DeleteFile

SpecFile == InitFile /\ [][NextFile]_vars

\* no intervals, a zero reference frequency or a zero repeat ratio
TuningIncomplete(t) ==
    \/ Len(t.intervals) = 0
    \/ t.referenceFrequency = 0
    \/ t.repeatRatio = 0

\* C30: saveToFile(TuningSystem) refuses to write (file and stored tree
\* unchanged) exactly when the target file exists and overwrite is false, or
\* the tuning system is incomplete (no intervals, a zero reference frequency
\* or a zero repeat ratio); a tuning system with at least one interval, a
\* non-zero reference frequency and a non-zero repeat ratio is written.
C30_SaveRefusesIncompleteOnly ==
    [][lastOp' = "saveToFile" =>
          IF (file.exists /\ ~args'[1]) \/ TuningIncomplete(tuning)
          THEN file' = file
          ELSE /\ file'.exists
               /\ file'.data # <<>>
               /\ file'.data = file'.tree
               /\ file'.data.type = "Tuning"
               /\ file'.data.ReferenceFreq = tuning.referenceFrequency
               /\ file'.data.RepeatRatio = tuning.repeatRatio]_vars

====
